---- MODULE Spec2Model ----
(***************************************************************************)
(* A model of the DNS query tool: the response cache (cache_manager.py),   *)
(* the wire codec (packet_builder.py, packet_parser.py) and the resolver   *)
(* (dns_client.py).                                                        *)
(*                                                                         *)
(* Strings are sequences of character codes, packets are sequences of      *)
(* bytes, Python dicts are records, and the cache's dict is a sequence of  *)
(* entries in insertion order.  Time is counted in ticks of                *)
(* 1/TicksPerSecond second, so that time.time() can fall between seconds.  *)
(***************************************************************************)
EXTENDS Integers, Sequences, FiniteSets, TLC

VARIABLES
    cache,      \* CacheManager._cache: entries in dict insertion order
    stats,      \* CacheManager._stats
    max_size,   \* CacheManager.max_size
    now,        \* the value time.time() returns, in ticks
    lock,       \* CacheManager._lock, an RLock: its owner and how often it holds it
    pc,         \* per thread: where it is in the call it runs
    disk,       \* the file export_cache wrote, or None when there is none
    wire,       \* calls made so far: of DNSClient.query and of socket.sendto
    heap        \* the list objects that dicts refer to, by address

vars == <<cache, stats, max_size, now, lock, pc, disk, wire, heap>>

----------------------------------------------------------------------------
(* Bounds of the model *)

MaxTime == 2        \* the clock stops after this many ticks
MaxCount == 1       \* no counter of _stats is driven past this
MaxCapacity == 2    \* max_size is chosen in 0..MaxCapacity
MaxQueries == 3     \* DNSClient.query is called at most this many times
MaxObjects == 2     \* at most this many list objects are made
MaxListLen == 2     \* no list grows beyond this many items

TicksPerSecond == 2

----------------------------------------------------------------------------
(* Strings *)

Colon == 58
Dot == 46

Str_A == <<65>>
Str_NS == <<78, 83>>
Str_CNAME == <<67, 78, 65, 77, 69>>
Str_PTR == <<80, 84, 82>>
Str_MX == <<77, 88>>
Str_TXT == <<84, 88, 84>>
Str_AAAA == <<65, 65, 65, 65>>

Server1 == <<56>>                \* "8"

None == [type |-> "None"]

----------------------------------------------------------------------------
(* CacheManager: the dict *)

Has(c, key) == \E i \in 1..Len(c) : c[i].key = key

Idx(c, key) == CHOOSE i \in 1..Len(c) : c[i].key = key

Entry(c, key) == c[Idx(c, key)]

\* del self._cache[key]
Del(c, key) == SelectSeq(c, LAMBDA e : e.key # key)

\* A dict that keeps the old entry of a key beside the new one
Store_appending(c, e) == Append(c, e)

\* self._cache[key] = {...}: an existing key keeps its place, a new one goes last
Store(c, e) ==
    IF Has(c, e.key) THEN [c EXCEPT ![Idx(c, e.key)] = e] ELSE Append(c, e)

KeysOf(c) == {c[i].key : i \in 1..Len(c)}

\* What a call leaves behind: the dict, the counters, the value returned, and
\* the text of the exception raised ("" when the call returns)
Result(c, s, r) == [cache |-> c, stats |-> s, ret |-> r, exc |-> ""]

Raise(c, s, msg) == [cache |-> c, stats |-> s, ret |-> None, exc |-> msg]

----------------------------------------------------------------------------
(* CacheManager: the operations, each the body run under self._lock *)

\* get with the expiry test off by one tick
get_late_expiry(c, s, t, key) ==
    IF ~Has(c, key)
    THEN Result(c, [s EXCEPT !.misses = @ + 1], None)
    ELSE LET entry == Entry(c, key) IN
         IF t > entry.expires
         THEN Result(Del(c, key), [s EXCEPT !.misses = @ + 1], None)
         ELSE Result(c, [s EXCEPT !.hits = @ + 1], entry.data)

\* get that counts its removal of an expired entry as a cleanup
get_counting_cleanup(c, s, t, key) ==
    IF ~Has(c, key)
    THEN Result(c, [s EXCEPT !.misses = @ + 1], None)
    ELSE LET entry == Entry(c, key) IN
         IF t >= entry.expires
         THEN Result(Del(c, key), [s EXCEPT !.misses = @ + 1, !.cleanups = @ + 1], None)
         ELSE Result(c, [s EXCEPT !.hits = @ + 1], entry.data)

get(c, s, t, key) ==
    IF ~Has(c, key)
    THEN Result(c, [s EXCEPT !.misses = @ + 1], None)
    ELSE LET entry == Entry(c, key) IN
         IF t >= entry.expires
         THEN Result(Del(c, key), [s EXCEPT !.misses = @ + 1], None)
         ELSE Result(c, [s EXCEPT !.hits = @ + 1], entry.data)

\* evict_oldest taking the entry created last
evict_newest(c, s) ==
    IF Len(c) = 0
    THEN [cache |-> c, stats |-> s]
    ELSE LET newest == CHOOSE i \in 1..Len(c) :
                          \A j \in 1..Len(c) : c[i].created >= c[j].created
         IN [cache |-> Del(c, c[newest].key),
             stats |-> [s EXCEPT !.evictions = @ + 1]]

\* min() returns the first key in dict order among those of least 'created'
evict_oldest(c, s) ==
    IF Len(c) = 0
    THEN [cache |-> c, stats |-> s]
    ELSE LET oldest == CHOOSE i \in 1..Len(c) :
                          /\ \A j \in 1..Len(c) : c[i].created <= c[j].created
                          /\ \A j \in 1..(i - 1) : c[j].created > c[i].created
         IN [cache |-> Del(c, c[oldest].key),
             stats |-> [s EXCEPT !.evictions = @ + 1]]

\* set refusing only a negative ttl
set_zero_ttl_stored(c, s, t, cap, key, data, ttl) ==
    IF ttl < 0
    THEN Result(c, s, None)
    ELSE Result(Store(c, [key |-> key, data |-> data,
                          expires |-> t + ttl * TicksPerSecond, created |-> t]),
                s, None)

\* set that evicts whenever the dict is full, also for a key it holds
set_evicting_for_held_key(c, s, t, cap, key, data, ttl) ==
    IF ttl <= 0
    THEN Result(c, s, None)
    ELSE LET expires == t + ttl * TicksPerSecond
             ev == IF Len(c) >= cap
                   THEN evict_oldest(c, s)
                   ELSE [cache |-> c, stats |-> s]
         IN Result(Store(ev.cache, [key |-> key, data |-> data,
                                    expires |-> expires, created |-> t]),
                   ev.stats, None)

set(c, s, t, cap, key, data, ttl) ==
    IF ttl <= 0
    THEN Result(c, s, None)
    ELSE LET expires == t + ttl * TicksPerSecond
             ev == IF Len(c) >= cap /\ ~Has(c, key)
                   THEN evict_oldest(c, s)
                   ELSE [cache |-> c, stats |-> s]
         IN Result(Store(ev.cache, [key |-> key, data |-> data,
                                    expires |-> expires, created |-> t]),
                   ev.stats, None)

\* is_cached that leaves an expired entry in the dict
is_cached_keeping_expired(c, s, t, key) ==
    IF ~Has(c, key)
    THEN Result(c, s, FALSE)
    ELSE IF t >= Entry(c, key).expires
         THEN Result(c, s, FALSE)
         ELSE Result(c, s, TRUE)

is_cached(c, s, t, key) ==
    IF ~Has(c, key)
    THEN Result(c, s, FALSE)
    ELSE IF t >= Entry(c, key).expires
         THEN Result(Del(c, key), s, FALSE)
         ELSE Result(c, s, TRUE)

get_ttl(c, s, t, key) ==
    IF ~Has(c, key)
    THEN Result(c, s, 0)
    ELSE IF t >= Entry(c, key).expires
         THEN Result(Del(c, key), s, 0)
         ELSE Result(c, s, (Entry(c, key).expires - t) \div TicksPerSecond)

delete(c, s, key) ==
    IF Has(c, key) THEN Result(Del(c, key), s, TRUE) ELSE Result(c, s, FALSE)

\* clear_cache that resets every counter
clear_cache_resetting_all(c, s) ==
    Result(<<>>, [hits |-> 0, misses |-> 0, evictions |-> 0, cleanups |-> 0], None)

clear_cache(c, s) ==
    Result(<<>>, [s EXCEPT !.hits = 0, !.misses = 0], None)

\* get_stats dividing the hits by the misses
get_stats_hits_per_miss(c, s, cap) ==
    Result(c, s, [total_entries |-> Len(c),
                  hits |-> s.hits,
                  misses |-> s.misses,
                  hit_ratio |-> IF s.misses > 0
                                THEN [num |-> s.hits, den |-> s.misses]
                                ELSE [num |-> 0, den |-> 1],
                  evictions |-> s.evictions,
                  cleanups |-> s.cleanups,
                  max_size |-> cap])

\* hit_ratio is the fraction num/den; memory_usage (a size of str(data)) is left out
get_stats(c, s, cap) ==
    LET total_requests == s.hits + s.misses IN
    Result(c, s, [total_entries |-> Len(c),
                  hits |-> s.hits,
                  misses |-> s.misses,
                  hit_ratio |-> IF total_requests > 0
                                THEN [num |-> s.hits, den |-> total_requests]
                                ELSE [num |-> 0, den |-> 1],
                  evictions |-> s.evictions,
                  cleanups |-> s.cleanups,
                  max_size |-> cap])

\* A sweep that counts a cleanup whether or not it removed an entry
cleanup_expired_always_counting(c, s, t) ==
    LET kept == SelectSeq(c, LAMBDA e : ~(t >= e.expires)) IN
    Result(kept, [s EXCEPT !.cleanups = @ + 1], Len(c) - Len(kept))

cleanup_expired(c, s, t) ==
    LET kept == SelectSeq(c, LAMBDA e : ~(t >= e.expires)) IN
    Result(kept,
           IF Len(kept) < Len(c) THEN [s EXCEPT !.cleanups = @ + 1] ELSE s,
           Len(c) - Len(kept))

\* get_cache_contents: per key, in dict order
get_cache_contents(c, s, t) ==
    Result(c, s, [i \in 1..Len(c) |->
                    [key |-> c[i].key,
                     ttl_remaining |-> IF c[i].expires - t > 0
                                       THEN (c[i].expires - t) \div TicksPerSecond
                                       ELSE 0,
                     created |-> c[i].created,
                     expires |-> c[i].expires]])

\* An export that also writes the entries that have expired
export_data_with_expired(c, s, t, cap) ==
    [timestamp |-> t,
     stats |-> get_stats(c, s, cap).ret,
     entries |-> [i \in 1..Len(c) |->
                    [key |-> c[i].key,
                     has_data |-> TRUE,
                     data |-> c[i].data,
                     ttl_remaining |-> (c[i].expires - t) \div TicksPerSecond,
                     created |-> c[i].created]]]

\* The JSON document export_cache dumps: the entries that have not expired,
\* in dict order.
export_data(c, s, t, cap) ==
    [timestamp |-> t,
     stats |-> get_stats(c, s, cap).ret,
     entries |-> LET live == SelectSeq(c, LAMBDA e : t < e.expires) IN
                 [i \in 1..Len(live) |->
                    [key |-> live[i].key,
                     has_data |-> TRUE,
                     data |-> live[i].data,
                     ttl_remaining |-> (live[i].expires - t) \div TicksPerSecond,
                     created |-> live[i].created]]]

\* The loop of import_cache over the file's entries, from entry i on.  An entry
\* with ttl_remaining > 0 and no 'data' raises KeyError in the middle of the loop.
RECURSIVE import_entries(_, _, _, _)
import_entries(c, entries, i, t) ==
    IF i > Len(entries)
    THEN [cache |-> c, exc |-> ""]
    ELSE LET entry == entries[i] IN
         IF entry.ttl_remaining > 0
         THEN IF ~entry.has_data
              THEN [cache |-> c, exc |-> "Failed to import cache"]
              ELSE import_entries(
                       Store(c, [key |-> entry.key, data |-> entry.data,
                                 expires |-> t + entry.ttl_remaining * TicksPerSecond,
                                 created |-> t]),
                       entries, i + 1, t)
         ELSE import_entries(c, entries, i + 1, t)

\* file is None when open() or json.load() fails; t is the time read before
\* the lock is taken
import_cache(c, s, t, file) ==
    IF file = None
    THEN Raise(c, s, "Failed to import cache")
    ELSE LET r == import_entries(c, file.entries, 1, t) IN
         IF r.exc = "" THEN Result(r.cache, s, None) ELSE Raise(r.cache, s, r.exc)

----------------------------------------------------------------------------
(* The cache alone: every operation of CacheManager as one step, called in *)
(* any order with any argument, with the clock and the sweeper.            *)

\* f"{domain}:{record_type}:{dns_server}"
cache_key(domain, record_type, dns_server) ==
    domain \o <<Colon>> \o record_type \o <<Colon>> \o dns_server

Domains == {<<97>>, <<98>>, <<99>>}          \* "a", "b", "c"

Keys == {cache_key(d, Str_A, Server1) : d \in Domains}

Dicts == {[test |-> "data"], [test |-> "other"]}

Ttls == {-1, 0, 1}

KeyA == cache_key(<<97>>, Str_A, Server1)
KeyB == cache_key(<<98>>, Str_A, Server1)
KeyC == cache_key(<<99>>, Str_A, Server1)

FileEntry(key, data, ttl_remaining) ==
    [key |-> key, has_data |-> TRUE, data |-> data,
     ttl_remaining |-> ttl_remaining, created |-> 0]

\* Files handed to import_cache: None is a file that cannot be opened or parsed;
\* the last file has an entry without 'data'
ImportFiles ==
    {None,
     [entries |-> <<FileEntry(KeyA, [test |-> "data"], 1),
                    FileEntry(KeyC, [test |-> "other"], 2),
                    FileEntry(KeyB, [test |-> "data"], 0)>>],
     [entries |-> <<FileEntry(KeyB, [test |-> "other"], 1),
                    [key |-> KeyC, has_data |-> FALSE, ttl_remaining |-> 1,
                     created |-> 0]>>]}

Callers == {"t1", "t2"}

Sweeper == "sweeper"

Threads == Callers \cup {Sweeper}

NoThread == "none"

Unlocked == [owner |-> NoThread, count |-> 0]

Idle == [op |-> "none", phase |-> "idle", arg |-> None]

NoCalls == [query |-> 0, sendto |-> 0]

InitialStats == [hits |-> 0, misses |-> 0, evictions |-> 0, cleanups |-> 0]

Bounded(s) ==
    /\ s.hits <= MaxCount
    /\ s.misses <= MaxCount
    /\ s.evictions <= MaxCount
    /\ s.cleanups <= MaxCount

\* The dict and the counters a call leaves
Apply(r) ==
    /\ Bounded(r.stats)
    /\ cache' = r.cache
    /\ stats' = r.stats

Get(key) ==
    /\ Apply(get(cache, stats, now, key))
    /\ UNCHANGED <<max_size, now, lock, pc, disk, wire, heap>>

Set(key, data, ttl) ==
    /\ Apply(set(cache, stats, now, max_size, key, data, ttl))
    /\ UNCHANGED <<max_size, now, lock, pc, disk, wire, heap>>

IsCached(key) ==
    /\ Apply(is_cached(cache, stats, now, key))
    /\ UNCHANGED <<max_size, now, lock, pc, disk, wire, heap>>

GetTtl(key) ==
    /\ Apply(get_ttl(cache, stats, now, key))
    /\ UNCHANGED <<max_size, now, lock, pc, disk, wire, heap>>

Delete(key) ==
    /\ Apply(delete(cache, stats, key))
    /\ UNCHANGED <<max_size, now, lock, pc, disk, wire, heap>>

ClearCache ==
    /\ Apply(clear_cache(cache, stats))
    /\ UNCHANGED <<max_size, now, lock, pc, disk, wire, heap>>

GetStats ==
    /\ Apply(get_stats(cache, stats, max_size))
    /\ UNCHANGED <<max_size, now, lock, pc, disk, wire, heap>>

GetCacheContents ==
    /\ Apply(get_cache_contents(cache, stats, now))
    /\ UNCHANGED <<max_size, now, lock, pc, disk, wire, heap>>

ImportCache(file) ==
    /\ Apply(import_cache(cache, stats, now, file))
    /\ UNCHANGED <<max_size, now, lock, pc, disk, wire, heap>>

\* One pass of _cleanup_loop
Sweep ==
    /\ Apply(cleanup_expired(cache, stats, now))
    /\ UNCHANGED <<max_size, now, lock, pc, disk, wire, heap>>

Tick ==
    /\ now < MaxTime
    /\ now' = now + 1
    /\ UNCHANGED <<cache, stats, max_size, lock, pc, disk, wire, heap>>

Init ==
    /\ cache = <<>>
    /\ stats = InitialStats
    /\ max_size \in 0..MaxCapacity
    /\ now = 0
    /\ lock = Unlocked
    /\ pc = [t \in Threads |-> Idle]
    /\ disk = None
    /\ wire = NoCalls
    /\ heap = <<>>

Next ==
    \/ \E key \in Keys : Get(key)
    \/ \E key \in Keys, data \in Dicts, ttl \in Ttls : Set(key, data, ttl)
    \/ \E key \in Keys : IsCached(key)
    \/ \E key \in Keys : GetTtl(key)
    \/ \E key \in Keys : Delete(key)
    \/ ClearCache
    \/ GetStats
    \/ GetCacheContents
    \/ \E file \in ImportFiles : ImportCache(file)
    \/ Sweep
    \/ Tick

Spec == Init /\ [][Next]_vars

----------------------------------------------------------------------------
(* DNSPacketBuilder.  Packets are sequences of bytes, text is a sequence of *)
(* character codes; a function that can raise returns [ret, exc].          *)

Ok(v) == [ret |-> v, exc |-> ""]

Err(msg) == [ret |-> None, exc |-> msg]

\* struct.pack('!B'), ('!H') and ('!I')
U8(n) == <<n % 256>>

U16(n) == <<(n \div 256) % 256, n % 256>>

U32(n) == U16((n \div 65536) % 65536) \o U16(n % 65536)

RECORD_TYPES ==
    (Str_A :> 1) @@ (Str_NS :> 2) @@ (Str_CNAME :> 5) @@ (Str_PTR :> 12) @@
    (Str_MX :> 15) @@ (Str_TXT :> 16) @@ (Str_AAAA :> 28)

CLASS_IN == 1

\* str.split(sep): the pieces between the occurrences of sep
split(s, sep) ==
    LET at == {i \in 1..Len(s) : s[i] = sep}
        cut(k) == IF k = 0 THEN 0
                  ELSE IF k > Cardinality(at) THEN Len(s) + 1
                  ELSE CHOOSE i \in at : Cardinality({j \in at : j < i}) = k - 1
    IN  [k \in 1..(Cardinality(at) + 1) |-> SubSeq(s, cut(k - 1) + 1, cut(k) - 1)]

\* b''.join(parts[i..j])
RECURSIVE concat(_, _, _)
concat(parts, i, j) ==
    IF i > j THEN <<>>
    ELSE IF i = j THEN parts[i]
    ELSE LET mid == (i + j) \div 2
         IN  concat(parts, i, mid) \o concat(parts, mid + 1, j)

\* The loop of _encode_domain_name over the labels: empty labels are skipped,
\* and the first label that is longer than 63 or that label.encode('ascii')
\* cannot encode raises
encode_labels(labels) ==
    LET bad == {i \in 1..Len(labels) :
                   \/ Len(labels[i]) > 63
                   \/ \E k \in 1..Len(labels[i]) : labels[i][k] > 127}
        first == CHOOSE i \in bad : \A j \in bad : i <= j
    IN  IF bad # {}
        THEN IF Len(labels[first]) > 63
             THEN Err("ValueError: Label too long")
             ELSE Err("UnicodeEncodeError: 'ascii' codec can't encode character")
        ELSE Ok(concat([i \in 1..Len(labels) |->
                           IF labels[i] = <<>> THEN <<>>
                           ELSE U8(Len(labels[i])) \o labels[i]],
                       1, Len(labels)) \o <<0>>)

\* An encoder that takes the empty domain for the root
encode_domain_name_accepting_empty(domain) ==
    IF Len(domain) > 253
    THEN Err("ValueError: Invalid domain name length")
    ELSE encode_labels(split(domain, Dot))

encode_domain_name(domain) ==
    IF domain = <<>> \/ Len(domain) > 253
    THEN Err("ValueError: Invalid domain name length")
    ELSE encode_labels(split(domain, Dot))

build_header(transaction_id) ==
    U16(transaction_id % 65536) \o U16(256) \o U16(1) \o U16(0) \o U16(0) \o U16(0)

\* A question with the class before the type
build_question_class_first(domain, record_type) ==
    LET qname == encode_domain_name(domain)
    IN  IF qname.exc # "" THEN qname
        ELSE Ok(qname.ret \o U16(CLASS_IN) \o U16(RECORD_TYPES[record_type]))

build_question(domain, record_type) ==
    LET qname == encode_domain_name(domain)
    IN  IF qname.exc # "" THEN qname
        ELSE Ok(qname.ret \o U16(RECORD_TYPES[record_type]) \o U16(CLASS_IN))

build_query(domain, record_type, transaction_id) ==
    IF record_type \notin DOMAIN RECORD_TYPES
    THEN Err("ValueError: Unsupported record type")
    ELSE LET question == build_question(domain, record_type)
         IN  IF question.exc # "" THEN question
             ELSE Ok(build_header(transaction_id) \o question.ret)

----------------------------------------------------------------------------
(* DNSPacketParser.  Offsets count from 0 as in the source.                *)

Parser_RECORD_TYPES ==
    (1 :> Str_A) @@ (2 :> Str_NS) @@ (5 :> Str_CNAME) @@ (12 :> Str_PTR) @@
    (15 :> Str_MX) @@ (16 :> Str_TXT) @@ (28 :> Str_AAAA)

RESPONSE_CODES ==
    (0 :> "NOERROR") @@ (1 :> "FORMERR") @@ (2 :> "SERVFAIL") @@
    (3 :> "NXDOMAIN") @@ (4 :> "NOTIMP") @@ (5 :> "REFUSED")

\* A call that never returns
Hangs == [ret |-> None, exc |-> "hang"]

StructError == Err("struct.error")

\* packet[a:b], for 0 <= a
Slice(packet, a, b) ==
    IF a >= Len(packet) \/ b <= a THEN <<>>
    ELSE SubSeq(packet, a + 1, IF b > Len(packet) THEN Len(packet) ELSE b)

\* struct.unpack of one '!H' and one '!I' field
UnpackH(b) == b[1] * 256 + b[2]

UnpackI(b) == UnpackH(SubSeq(b, 1, 2)) * 65536 + UnpackH(SubSeq(b, 3, 4))

\* str(n) for n >= 0
RECURSIVE Digits(_)
Digits(n) == IF n < 10 THEN <<48 + n>> ELSE Digits(n \div 10) \o <<48 + (n % 10)>>

HexDigit(d) == IF d < 10 THEN 48 + d ELSE 87 + d

\* bytes.hex()
RECURSIVE hex(_)
hex(b) ==
    IF b = <<>> THEN <<>>
    ELSE <<HexDigit(b[1] \div 16), HexDigit(b[1] % 16)>> \o hex(Tail(b))

\* sep.join(parts)
RECURSIVE join(_, _)
join(parts, sep) ==
    IF parts = <<>> THEN <<>>
    ELSE IF Len(parts) = 1 THEN parts[1]
    ELSE parts[1] \o sep \o join(Tail(parts), sep)

\* bytes.decode('ascii', errors='ignore')
decode_ascii(b) == SelectSeq(b, LAMBDA x : x < 128)

\* bytes.find(sub): the first offset where sub occurs, -1 when it does not
find(packet, sub) ==
    LET at(i) == i + Len(sub) <= Len(packet) /\ Slice(packet, i, i + Len(sub)) = sub
        hits  == {i \in 0..Len(packet) : at(i)}
    IN  IF hits = {} THEN -1 ELSE CHOOSE i \in hits : \A j \in hits : i <= j

parse_header(packet, offset) ==
    LET f(i) == UnpackH(Slice(packet, offset + 2 * i, offset + 2 * i + 2))
        flags == f(1)
    IN  [id |-> f(0), flags |-> flags,
         qdcount |-> f(2), ancount |-> f(3), nscount |-> f(4), arcount |-> f(5),
         qr |-> (flags \div 32768) % 2, opcode |-> (flags \div 2048) % 16,
         aa |-> (flags \div 1024) % 2, tc |-> (flags \div 512) % 2,
         rd |-> (flags \div 256) % 2, ra |-> (flags \div 128) % 2,
         rcode |-> flags % 16]

\* A loop that resumes after the last pointer it followed
RECURSIVE parse_domain_name_loop_last_pointer(_, _, _, _, _, _)
parse_domain_name_loop_last_pointer(packet, offset, labels, original_offset, jumped,
                                    followed) ==
    LET done(off) ==
            Ok([name |-> IF labels = <<>> THEN <<Dot>> ELSE join(labels, <<Dot>>),
                offset |-> IF jumped THEN original_offset ELSE off])
        length == packet[offset + 1]
    IN  IF offset >= Len(packet) THEN done(offset)
        ELSE IF length >= 192
        THEN IF offset + 2 > Len(packet) THEN StructError
             ELSE IF offset \in followed THEN Hangs
             ELSE parse_domain_name_loop_last_pointer(
                      packet,
                      UnpackH(Slice(packet, offset, offset + 2)) % 16384,
                      labels, offset + 2, TRUE, followed \cup {offset})
        ELSE IF length = 0 THEN done(offset + 1)
        ELSE IF offset + 1 + length > Len(packet) THEN done(offset + 1)
        ELSE parse_domain_name_loop_last_pointer(
                 packet, offset + 1 + length,
                 Append(labels, decode_ascii(Slice(packet, offset + 1, offset + 1 + length))),
                 original_offset, jumped, followed)

\* The while loop of _parse_domain_name.  What the loop does next depends on
\* offset alone, so a pointer met a second time is met forever: the loop never
\* ends.  followed is the set of offsets of the pointers followed so far.
RECURSIVE parse_domain_name_loop(_, _, _, _, _, _)
parse_domain_name_loop(packet, offset, labels, original_offset, jumped, followed) ==
    LET done(off) ==
            Ok([name |-> IF labels = <<>> THEN <<Dot>> ELSE join(labels, <<Dot>>),
                offset |-> IF jumped THEN original_offset ELSE off])
        length == packet[offset + 1]
    IN  IF offset >= Len(packet) THEN done(offset)
        ELSE IF length >= 192
        THEN IF offset + 2 > Len(packet) THEN StructError
             ELSE IF offset \in followed THEN Hangs
             ELSE parse_domain_name_loop(
                      packet,
                      UnpackH(Slice(packet, offset, offset + 2)) % 16384,
                      labels,
                      IF jumped THEN original_offset ELSE offset + 2,
                      TRUE, followed \cup {offset})
        ELSE IF length = 0 THEN done(offset + 1)
        ELSE IF offset + 1 + length > Len(packet) THEN done(offset + 1)
        ELSE parse_domain_name_loop(
                 packet, offset + 1 + length,
                 Append(labels, decode_ascii(Slice(packet, offset + 1, offset + 1 + length))),
                 original_offset, jumped, followed)

\* A decoder that hands back the offset it was given
parse_domain_name_resuming_at_start(packet, offset) ==
    parse_domain_name_loop(packet, offset, <<>>, offset, TRUE, {})

\* A decoder that resumes after the last pointer it followed
parse_domain_name_last_pointer(packet, offset) ==
    parse_domain_name_loop_last_pointer(packet, offset, <<>>, offset, FALSE, {})

parse_domain_name(packet, offset) ==
    parse_domain_name_loop(packet, offset, <<>>, offset, FALSE, {})

TypeName(code) ==
    IF code \in DOMAIN Parser_RECORD_TYPES THEN Parser_RECORD_TYPES[code]
    ELSE <<84, 89, 80, 69>> \o Digits(code)        \* f'TYPE{code}'

\* Lines 154-166 of _parse_question, after the name n was parsed
question_after_name(n, fixed) ==
    IF Len(fixed) # 4 THEN StructError
    ELSE Ok([item |-> [name |-> n.name,
                       type |-> TypeName(UnpackH(SubSeq(fixed, 1, 2))),
                       class |-> UnpackH(SubSeq(fixed, 3, 4))],
             offset |-> n.offset + 4])

question_at(packet, n) ==
    IF n.exc # "" THEN n
    ELSE question_after_name(n.ret, Slice(packet, n.ret.offset, n.ret.offset + 4))

parse_question(packet, offset) == question_at(packet, parse_domain_name(packet, offset))

\* socket.inet_ntoa
inet_ntoa(b) == join(<<Digits(b[1]), Digits(b[2]), Digits(b[3]), Digits(b[4])>>, <<Dot>>)

\* '%x' of a 16-bit word
RECURSIVE HexWord(_)
HexWord(n) == IF n < 16 THEN <<HexDigit(n)>> ELSE HexWord(n \div 16) \o <<HexDigit(n % 16)>>

\* socket.inet_ntop(AF_INET6, b), as the C library prints it: the first longest
\* run of two or more zero words becomes '::', and an address that embeds an
\* IPv4 address ends in dotted form
RECURSIVE ntop6_words(_, _, _, _)
ntop6_words(b, w, best, i) ==
    IF i > 7 THEN IF best.base # -1 /\ best.base + best.len = 8 THEN <<Colon>> ELSE <<>>
    ELSE IF best.base # -1 /\ i >= best.base /\ i < best.base + best.len
    THEN (IF i = best.base THEN <<Colon>> ELSE <<>>) \o ntop6_words(b, w, best, i + 1)
    ELSE (IF i # 0 THEN <<Colon>> ELSE <<>>) \o
         (IF i = 6 /\ best.base = 0
                /\ (best.len = 6 \/ (best.len = 5 /\ w[6] = 65535))
          THEN inet_ntoa(SubSeq(b, 13, 16))
          ELSE HexWord(w[i + 1]) \o ntop6_words(b, w, best, i + 1))

inet_ntop6(b) ==
    LET w == [i \in 1..8 |-> UnpackH(SubSeq(b, 2 * i - 1, 2 * i))]
        run(base) == CHOOSE n \in 0..8 :
                        /\ \A k \in base..(base + n - 1) : k <= 7 /\ w[k + 1] = 0
                        /\ (base + n > 7 \/ w[base + n + 1] # 0)
        starts == {base \in 0..7 : run(base) >= 2}
        best == IF starts = {} THEN [base |-> -1, len |-> 0]
                ELSE LET base == CHOOSE x \in starts :
                                    \A y \in starts : run(x) > run(y) \/ (run(x) = run(y) /\ x <= y)
                     IN  [base |-> base, len |-> run(base)]
    IN  ntop6_words(b, w, best, 0)

\* The TXT loop of _parse_record_data
RECURSIVE txt_parts(_, _)
txt_parts(rdata, offset) ==
    IF offset >= Len(rdata) THEN <<>>
    ELSE LET length == rdata[offset + 1]
         IN  IF offset + 1 + length <= Len(rdata)
             THEN decode_ascii(Slice(rdata, offset + 1, offset + 1 + length))
                      \o txt_parts(rdata, offset + 1 + length)
             ELSE <<>>

\* The name parsed inside a record's data: an exception falls back to the hex
\* form of rdata
name_or_fallback(n, rdata, prefix) ==
    IF n.exc = Hangs.exc THEN Hangs
    ELSE IF n.exc # "" THEN Ok(hex(rdata))
    ELSE Ok(prefix \o n.ret.name)

\* rdata is a slice of packet, so find() locates it, at its first occurrence
parse_record_data(record_type, rdata, packet) ==
    LET fallback == Ok(hex(rdata))
        priority == UnpackH(SubSeq(rdata, 1, 2))
        domain_start == find(packet, SubSeq(rdata, 3, Len(rdata)))
    IN  IF record_type = Str_A
        THEN IF Len(rdata) = 4 THEN Ok(inet_ntoa(rdata)) ELSE fallback
        ELSE IF record_type = Str_AAAA
        THEN IF Len(rdata) = 16 THEN Ok(inet_ntop6(rdata)) ELSE fallback
        ELSE IF record_type \in {Str_NS, Str_CNAME, Str_PTR}
        THEN name_or_fallback(parse_domain_name(packet, find(packet, rdata)), rdata, <<>>)
        ELSE IF record_type = Str_MX
        THEN IF Len(rdata) >= 3
             THEN IF domain_start = -1
                  THEN Ok(Digits(priority) \o <<32, 60, 117, 110, 107, 110, 111, 119, 110, 62>>)
                  ELSE name_or_fallback(parse_domain_name(packet, domain_start), rdata,
                                        Digits(priority) \o <<32>>)
             ELSE fallback
        ELSE IF record_type = Str_TXT
        THEN Ok(<<34>> \o txt_parts(rdata, 0) \o <<34>>)
        ELSE fallback

\* Lines 194-205 of _parse_resource_record
record_with_data(n, fixed, rdlength, record_type, parsed_data) ==
    IF parsed_data.exc = Hangs.exc THEN Hangs
    ELSE Ok([item |-> [name |-> n.name,
                       type |-> record_type,
                       class |-> UnpackH(SubSeq(fixed, 3, 4)),
                       ttl |-> UnpackI(SubSeq(fixed, 5, 8)),
                       data |-> parsed_data.ret],
             offset |-> n.offset + 10 + rdlength])

\* Lines 183-192 of _parse_resource_record, after the name n was parsed
record_after_name(packet, n, fixed) ==
    IF Len(fixed) # 10 THEN StructError
    ELSE record_with_data(
             n, fixed, UnpackH(SubSeq(fixed, 9, 10)),
             TypeName(UnpackH(SubSeq(fixed, 1, 2))),
             parse_record_data(TypeName(UnpackH(SubSeq(fixed, 1, 2))),
                               Slice(packet, n.offset + 10,
                                     n.offset + 10 + UnpackH(SubSeq(fixed, 9, 10))),
                               packet))

record_at(packet, n) ==
    IF n.exc # "" THEN n
    ELSE record_after_name(packet, n.ret, Slice(packet, n.ret.offset, n.ret.offset + 10))

parse_resource_record(packet, offset) ==
    record_at(packet, parse_domain_name(packet, offset))

\* One `for _ in range(count)` loop of parse_response, stopped by the first
\* exception
RECURSIVE parse_section(_, _, _, _, _)
section_step(packet, offset, count, is_question, items, r) ==
    IF r.exc # "" THEN [items |-> items, offset |-> offset, exc |-> r.exc]
    ELSE parse_section(packet, r.ret.offset, count - 1, is_question,
                       Append(items, r.ret.item))

parse_section(packet, offset, count, is_question, items) ==
    IF count = 0 THEN [items |-> items, offset |-> offset, exc |-> ""]
    ELSE section_step(packet, offset, count, is_question, items,
                      IF is_question THEN parse_question(packet, offset)
                      ELSE parse_resource_record(packet, offset))

\* The next loop runs only when the one before raised nothing
next_section(packet, prev, count, is_question) ==
    IF prev.exc # "" THEN [items |-> <<>>, offset |-> prev.offset, exc |-> prev.exc]
    ELSE parse_section(packet, prev.offset, count, is_question, <<>>)

\* A section that raises ends the parsing: what was decoded so far is returned
response_of(header, qd, an, ns, ar) ==
    IF ar.exc = Hangs.exc THEN Hangs
    ELSE Ok([id |-> header.id,
             status |-> IF header.rcode \in DOMAIN RESPONSE_CODES
                        THEN RESPONSE_CODES[header.rcode]
                        ELSE "UNKNOWN(" \o ToString(header.rcode),
             flags |-> header.flags,
             questions |-> qd.items,
             answers |-> an.items,
             authority |-> ns.items,
             additional |-> ar.items])

parse_additional(packet, header, qd, an, ns) ==
    response_of(header, qd, an, ns, next_section(packet, ns, header.arcount, FALSE))

parse_authority(packet, header, qd, an) ==
    parse_additional(packet, header, qd, an,
                     next_section(packet, an, header.nscount, FALSE))

parse_answers(packet, header, qd) ==
    parse_authority(packet, header, qd, next_section(packet, qd, header.ancount, FALSE))

parse_questions(packet, header) ==
    parse_answers(packet, header,
                  parse_section(packet, 12, header.qdcount, TRUE, <<>>))

NoExpectedId == -1          \* expected_id=None

\* parse_response without the validation of the transaction id
parse_response_with_unvalidated(packet, expected_id, header) ==
    parse_questions(packet, header)

parse_response_with(packet, expected_id, header) ==
    IF expected_id # NoExpectedId /\ header.id # expected_id
    THEN Err("Exception: Transaction ID mismatch")
    ELSE parse_questions(packet, header)

parse_response(packet, expected_id) ==
    IF Len(packet) < 12
    THEN Err("Exception: DNS packet too short (minimum 12 bytes required)")
    ELSE parse_response_with(packet, expected_id, parse_header(packet, 0))

----------------------------------------------------------------------------
(* The cache under threads: two callers and the sweeper, each call split at *)
(* `with self._lock:`.  A thread whose pc is in phase "cs" is inside the    *)
(* with block and runs the body next.  Arguments are few, so that the      *)
(* interleavings can be explored, and the clock stands still.              *)

LockKeys == {KeyA}

LockDicts == {[test |-> "data"]}

LockTtls == {0, 1}

\* RLock.acquire that does not wait for the owner to release
acquire_barging(t) ==
    lock' = [owner |-> t, count |-> lock.count + 1]

\* RLock.acquire: waits until the lock is free, or re-enters
acquire(t) ==
    /\ lock.owner \in {NoThread, t}
    /\ lock' = [owner |-> t, count |-> lock.count + 1]

\* RLock.release, at the end of the with block
release(t) ==
    lock' = IF lock.count <= 1 THEN Unlocked ELSE [lock EXCEPT !.count = @ - 1]

At(t, op, phase) == pc[t].op = op /\ pc[t].phase = phase

\* The call reaches `with self._lock:` and enters
Enter(t, op, arg) ==
    /\ pc[t] = Idle
    /\ acquire(t)
    /\ pc' = [pc EXCEPT ![t] = [op |-> op, phase |-> "cs", arg |-> arg]]
    /\ UNCHANGED <<cache, stats, max_size, now, disk, wire, heap>>

\* The body runs and the with block is left
Leave(t, op, r) ==
    /\ At(t, op, "cs")
    /\ cache' = r.cache
    /\ stats' = r.stats
    /\ release(t)
    /\ pc' = [pc EXCEPT ![t] = Idle]
    /\ UNCHANGED <<max_size, now, disk, wire, heap>>

\* Calls are made only while the counter they may raise is below MaxCount
Room(counters) == \A c \in counters : stats[c] < MaxCount

\* get is called only while the counter it raises is below MaxCount; the lock
\* is held from here to the body, so the body finds what is found here
GetEnter(t, key) ==
    /\ Bounded(get(cache, stats, now, key).stats)
    /\ Enter(t, "get", [key |-> key])

GetBody(t) == Leave(t, "get", get(cache, stats, now, pc[t].arg.key))

\* set returns before the lock when ttl <= 0
SetRefused(t, key, data, ttl) ==
    /\ pc[t] = Idle
    /\ ttl <= 0
    /\ UNCHANGED vars

SetEnter(t, key, data, ttl) ==
    /\ ttl > 0
    /\ Room({"evictions"})
    /\ Enter(t, "set", [key |-> key, data |-> data, ttl |-> ttl])

SetBody(t) ==
    Leave(t, "set", set(cache, stats, now, max_size,
                        pc[t].arg.key, pc[t].arg.data, pc[t].arg.ttl))

IsCachedEnter(t, key) == Enter(t, "is_cached", [key |-> key])

IsCachedBody(t) == Leave(t, "is_cached", is_cached(cache, stats, now, pc[t].arg.key))

GetTtlEnter(t, key) == Enter(t, "get_ttl", [key |-> key])

GetTtlBody(t) == Leave(t, "get_ttl", get_ttl(cache, stats, now, pc[t].arg.key))

DeleteEnter(t, key) == Enter(t, "delete", [key |-> key])

DeleteBody(t) == Leave(t, "delete", delete(cache, stats, pc[t].arg.key))

ClearCacheEnter(t) == Enter(t, "clear_cache", None)

ClearCacheBody(t) == Leave(t, "clear_cache", clear_cache(cache, stats))

GetStatsEnter(t) == Enter(t, "get_stats", None)

GetStatsBody(t) == Leave(t, "get_stats", get_stats(cache, stats, max_size))

GetCacheContentsEnter(t) == Enter(t, "get_cache_contents", None)

GetCacheContentsBody(t) ==
    Leave(t, "get_cache_contents", get_cache_contents(cache, stats, now))

\* export_cache: inside its with block it reads the time, calls get_stats (which
\* takes the lock again), reads the time again and writes the file
ExportEnter(t) == Enter(t, "export_cache", None)

ExportStatsEnter(t) ==
    /\ At(t, "export_cache", "cs")
    /\ acquire(t)
    /\ pc' = [pc EXCEPT ![t] = [op |-> "export_cache", phase |-> "stats",
                                arg |-> [timestamp |-> now]]]
    /\ UNCHANGED <<cache, stats, max_size, now, disk, wire, heap>>

ExportStatsBody(t) ==
    /\ At(t, "export_cache", "stats")
    /\ release(t)
    /\ pc' = [pc EXCEPT ![t] = [op |-> "export_cache", phase |-> "dump",
                                arg |-> [timestamp |-> pc[t].arg.timestamp,
                                         stats |-> get_stats(cache, stats, max_size).ret]]]
    /\ UNCHANGED <<cache, stats, max_size, now, disk, wire, heap>>

\* export_cache that keeps the lock when open() or json.dump() raises
ExportDump_keeping_lock(t, written) ==
    /\ At(t, "export_cache", "dump")
    /\ disk' = IF written
               THEN [export_data(cache, stats, now, max_size)
                        EXCEPT !.timestamp = pc[t].arg.timestamp,
                               !.stats = pc[t].arg.stats]
               ELSE disk
    /\ IF written THEN release(t) ELSE lock' = lock
    /\ pc' = [pc EXCEPT ![t] = Idle]
    /\ UNCHANGED <<cache, stats, max_size, now, wire, heap>>

\* written is FALSE when open() or json.dump() raises
ExportDump(t, written) ==
    /\ At(t, "export_cache", "dump")
    /\ disk' = IF written
               THEN [export_data(cache, stats, now, max_size)
                        EXCEPT !.timestamp = pc[t].arg.timestamp,
                               !.stats = pc[t].arg.stats]
               ELSE disk
    /\ release(t)
    /\ pc' = [pc EXCEPT ![t] = Idle]
    /\ UNCHANGED <<cache, stats, max_size, now, wire, heap>>

\* import_cache loads the file and reads the time before it takes the lock;
\* with no file it raises at once
ImportFailed(t) ==
    /\ pc[t] = Idle
    /\ disk = None
    /\ UNCHANGED vars

ImportLoad(t) ==
    /\ pc[t] = Idle
    /\ disk # None
    /\ pc' = [pc EXCEPT ![t] = [op |-> "import_cache", phase |-> "loaded",
                                arg |-> [file |-> disk, current_time |-> now]]]
    /\ UNCHANGED <<cache, stats, max_size, now, lock, disk, wire, heap>>

ImportEnter(t) ==
    /\ At(t, "import_cache", "loaded")
    /\ acquire(t)
    /\ pc' = [pc EXCEPT ![t].phase = "cs"]
    /\ UNCHANGED <<cache, stats, max_size, now, disk, wire, heap>>

ImportBody(t) ==
    Leave(t, "import_cache",
          import_cache(cache, stats, pc[t].arg.current_time, pc[t].arg.file))

\* _cleanup_loop: sleep, then one pass under the lock
SweepEnter == Room({"cleanups"}) /\ Enter(Sweeper, "sweep", None)

SweepBody == Leave(Sweeper, "sweep", cleanup_expired(cache, stats, now))

NextLock ==
    \/ \E t \in Callers :
          \/ \E key \in LockKeys : GetEnter(t, key)
          \/ GetBody(t)
          \/ \E key \in LockKeys, data \in LockDicts, ttl \in LockTtls :
                SetRefused(t, key, data, ttl)
          \/ \E key \in LockKeys, data \in LockDicts, ttl \in LockTtls :
                SetEnter(t, key, data, ttl)
          \/ SetBody(t)
          \/ \E key \in LockKeys : IsCachedEnter(t, key)
          \/ IsCachedBody(t)
          \/ \E key \in LockKeys : GetTtlEnter(t, key)
          \/ GetTtlBody(t)
          \/ \E key \in LockKeys : DeleteEnter(t, key)
          \/ DeleteBody(t)
          \/ ClearCacheEnter(t)
          \/ ClearCacheBody(t)
          \/ GetStatsEnter(t)
          \/ GetStatsBody(t)
          \/ GetCacheContentsEnter(t)
          \/ GetCacheContentsBody(t)
          \/ ExportEnter(t)
          \/ ExportStatsEnter(t)
          \/ ExportStatsBody(t)
          \/ \E written \in BOOLEAN : ExportDump(t, written)
          \/ ImportFailed(t)
          \/ ImportLoad(t)
          \/ ImportEnter(t)
          \/ ImportBody(t)
    \/ SweepEnter
    \/ SweepBody

SpecLock == Init /\ [][NextLock]_vars

----------------------------------------------------------------------------
(* DNSClient.query, step by step: the cache lookup and the encoding of the  *)
(* query; the socket and sendto; recvfrom, the decoding and the caching of  *)
(* the response; the return.  The clock and the sweeper run in between.    *)

DEFAULT_MIN_TTL == 300

get_minimum_ttl_answers_only(response) ==
    LET ttls == {response.answers[i].ttl : i \in 1..Len(response.answers)}
    IN  IF ttls = {} THEN DEFAULT_MIN_TTL
        ELSE CHOOSE m \in ttls : \A x \in ttls : m <= x

get_minimum_ttl(response) ==
    LET records == response.answers \o response.authority \o response.additional
        ttls == {records[i].ttl : i \in 1..Len(records)}
    IN  IF ttls = {} THEN DEFAULT_MIN_TTL
        ELSE CHOOSE m \in ttls : \A x \in ttls : m <= x

\* A test that takes a cached response without answers for a miss
Truthy_with_answers(d) == d # None /\ DOMAIN d # {} /\ d.answers # <<>>

\* `if cached_response:` is true of a dict that has a key
Truthy(d) == d # None /\ DOMAIN d # {}

TxIds == {4660}                     \* random.randint(1, 65535)

QueryDomains == {<<97>>, <<98>>, <<>>}      \* "a", "b", and "" which cannot be encoded

QueryTypes == {Str_A, <<88>>}       \* "A", and "X" which is not supported

Resolver == "t1"

\* What the server may send back for a query packet.  The question is echoed;
\* records name it by a compression pointer to offset 12 and carry an address.
ReplyHeader(id, flags, ancount, nscount, arcount) ==
    U16(id) \o U16(flags) \o U16(1) \o U16(ancount) \o U16(nscount) \o U16(arcount)

ReplyRecord(ttl) ==
    <<192, 12>> \o U16(1) \o U16(CLASS_IN) \o U32(ttl) \o U16(4) \o <<10, 0, 0, ttl % 256>>

ReplyKinds ==
    {"answer", "sections", "empty", "ttl0", "nxdomain", "cut", "short", "other_id",
     "loop"}

Reply(query_packet, kind) ==
    LET id == UnpackH(SubSeq(query_packet, 1, 2))
        question == SubSeq(query_packet, 13, Len(query_packet))
    IN  CASE kind = "answer" ->
                ReplyHeader(id, 33152, 1, 0, 0) \o question \o ReplyRecord(1)
          [] kind = "sections" ->
                ReplyHeader(id, 33152, 1, 1, 1) \o question
                    \o ReplyRecord(3) \o ReplyRecord(1) \o ReplyRecord(2)
          [] kind = "empty" ->
                ReplyHeader(id, 33152, 0, 0, 0) \o question
          [] kind = "ttl0" ->
                ReplyHeader(id, 33152, 2, 0, 0) \o question
                    \o ReplyRecord(1) \o ReplyRecord(0)
          [] kind = "nxdomain" ->
                ReplyHeader(id, 33155, 0, 1, 0) \o question \o ReplyRecord(1)
          [] kind = "cut" ->       \* two answers announced, the second cut short
                ReplyHeader(id, 33152, 2, 0, 0) \o question
                    \o ReplyRecord(2) \o <<192, 12, 0, 1>>
          [] kind = "short" ->
                SubSeq(ReplyHeader(id, 33152, 0, 0, 0), 1, 11)
          [] kind = "other_id" ->
                ReplyHeader((id + 1) % 65536, 33152, 1, 0, 0) \o question
                    \o ReplyRecord(1)
          [] kind = "loop" ->      \* the answer's name is a pointer to itself
                ReplyHeader(id, 33152, 1, 0, 0) \o question
                    \o <<192, 12 + Len(question)>>

\* One call of query: its arguments and locals, the calls it has made of
\* build_query, sendto and recvfrom, its socket, what it returns or raises, and
\* the entries of the cache when it was made
NewCall(domain, record_type, dns_server, dns_port, has_cache) ==
    [domain |-> domain, record_type |-> record_type, dns_server |-> dns_server,
     dns_port |-> dns_port, has_cache |-> has_cache, cache_hit |-> FALSE,
     transaction_id |-> 0, query_packet |-> <<>>, response_packet |-> <<>>,
     build_query |-> 0, sendto |-> 0, recvfrom |-> 0, sock |-> "none",
     ret |-> None, exc |-> "", entries_before |-> cache]

InQuery(t, phase) == pc[t].op = "query" /\ pc[t].phase = phase

Goto(t, phase, call) ==
    pc' = [pc EXCEPT ![t] = [op |-> "query", phase |-> phase, arg |-> call]]

DEFAULT_PORT == 53                  \* dns_port=53

\* Lines 43-61: the lookup when a cache is configured, then the transaction id
\* and the encoding
QueryLookupAt(t, domain, record_type, dns_server, dns_port, has_cache) ==
    /\ pc[t] = Idle
    /\ wire.query < MaxQueries
    /\ wire' = [wire EXCEPT !.query = @ + 1]
    /\ LET call == NewCall(domain, record_type, dns_server, dns_port, has_cache)
           key == cache_key(domain, record_type, dns_server)
           cached == IF has_cache THEN get(cache, stats, now, key)
                     ELSE Result(cache, stats, None)
       IN  /\ cache' = cached.cache
           /\ stats' = cached.stats
           /\ IF Truthy(cached.ret)
              THEN Goto(t, "done", [call EXCEPT !.cache_hit = TRUE, !.ret = cached.ret])
              ELSE \E transaction_id \in TxIds :
                     LET built == build_query(domain, record_type, transaction_id)
                         tried == [call EXCEPT !.transaction_id = transaction_id,
                                               !.build_query = 1]
                     IN  IF built.exc # ""
                         THEN Goto(t, "done", [tried EXCEPT !.exc = built.exc])
                         ELSE Goto(t, "built", [tried EXCEPT !.query_packet = built.ret])
    /\ UNCHANGED <<max_size, now, lock, disk, heap>>

\* query with the server and the port left at one value
QueryLookup(t, domain, record_type, has_cache) ==
    QueryLookupAt(t, domain, record_type, Server1, DEFAULT_PORT, has_cache)

\* A sender that tries again after sendto raised
QuerySend_retrying(t, outcome) ==
    /\ InQuery(t, "built")
    /\ LET call == pc[t].arg
       IN  CASE outcome = "socket_error" ->
                  /\ Goto(t, "done", [call EXCEPT !.exc = "Exception: DNS query failed"])
                  /\ wire' = wire
             [] outcome = "sendto_error" ->
                  /\ call.sendto < 2
                  /\ Goto(t, "built", [call EXCEPT !.sendto = @ + 1])
                  /\ wire' = [wire EXCEPT !.sendto = @ + 1]
             [] outcome = "sent" ->
                  /\ Goto(t, "sent", [call EXCEPT !.sendto = @ + 1, !.sock = "open"])
                  /\ wire' = [wire EXCEPT !.sendto = @ + 1]
    /\ UNCHANGED <<cache, stats, max_size, now, lock, disk, heap>>

\* _send_udp_query without its finally: a failed sendto leaves the socket open
QuerySend_leaking(t, outcome) ==
    /\ InQuery(t, "built")
    /\ LET call == pc[t].arg
       IN  CASE outcome = "socket_error" ->
                  /\ Goto(t, "done", [call EXCEPT !.exc = "Exception: DNS query failed"])
                  /\ wire' = wire
             [] outcome = "sendto_error" ->
                  /\ Goto(t, "done", [call EXCEPT !.sendto = @ + 1, !.sock = "open",
                                                  !.exc = "Exception: DNS query failed"])
                  /\ wire' = [wire EXCEPT !.sendto = @ + 1]
             [] outcome = "sent" ->
                  /\ Goto(t, "sent", [call EXCEPT !.sendto = @ + 1, !.sock = "open"])
                  /\ wire' = [wire EXCEPT !.sendto = @ + 1]
    /\ UNCHANGED <<cache, stats, max_size, now, lock, disk, heap>>

\* Lines 109-120 of _send_udp_query: socket.socket() may raise; sendto may raise
QuerySend(t, outcome) ==
    /\ InQuery(t, "built")
    /\ LET call == pc[t].arg
       IN  CASE outcome = "socket_error" ->
                  /\ Goto(t, "done", [call EXCEPT !.exc = "Exception: DNS query failed"])
                  /\ wire' = wire
             [] outcome = "sendto_error" ->
                  /\ Goto(t, "done", [call EXCEPT !.sendto = @ + 1, !.sock = "closed",
                                                  !.exc = "Exception: DNS query failed"])
                  /\ wire' = [wire EXCEPT !.sendto = @ + 1]
             [] outcome = "sent" ->
                  /\ Goto(t, "sent", [call EXCEPT !.sendto = @ + 1, !.sock = "open"])
                  /\ wire' = [wire EXCEPT !.sendto = @ + 1]
    /\ UNCHANGED <<cache, stats, max_size, now, lock, disk, heap>>

\* Caching whatever the status is
cache_response_any_status(c, s, t, cap, call, response) ==
    IF call.has_cache /\ get_minimum_ttl(response) > 0
    THEN set(c, s, t, cap, cache_key(call.domain, call.record_type, call.dns_server),
             response, get_minimum_ttl(response))
    ELSE Result(c, s, None)

\* Caching also when the client was made without a cache
cache_response_ignoring_mode(c, s, t, cap, call, response) ==
    IF response.status = "NOERROR" /\ get_minimum_ttl(response) > 0
    THEN set(c, s, t, cap, cache_key(call.domain, call.record_type, call.dns_server),
             response, get_minimum_ttl(response))
    ELSE Result(c, s, None)

\* Lines 83-87 of query: the response is cached when its status is NOERROR and
\* its minimum ttl is positive
cache_response(c, s, t, cap, call, response) ==
    IF call.has_cache /\ response.status = "NOERROR" /\ get_minimum_ttl(response) > 0
    THEN set(c, s, t, cap, cache_key(call.domain, call.record_type, call.dns_server),
             response, get_minimum_ttl(response))
    ELSE Result(c, s, None)

\* A failure that also drops the entry of the query's key
QueryReceiveFails_purging(t, outcome) ==
    /\ InQuery(t, "sent")
    /\ Goto(t, "done",
            [pc[t].arg EXCEPT !.recvfrom = @ + 1, !.sock = "closed",
                              !.exc = IF outcome = "timeout"
                                      THEN "Exception: DNS query timeout"
                                      ELSE "Exception: DNS query failed"])
    /\ cache' = Del(cache, cache_key(pc[t].arg.domain, pc[t].arg.record_type,
                                     pc[t].arg.dns_server))
    /\ UNCHANGED <<stats, max_size, now, lock, disk, wire, heap>>

\* A failed recvfrom swallowed: query returns None
QueryReceiveFails_returning_none(t, outcome) ==
    /\ InQuery(t, "sent")
    /\ Goto(t, "done", [pc[t].arg EXCEPT !.recvfrom = @ + 1, !.sock = "closed"])
    /\ UNCHANGED <<cache, stats, max_size, now, lock, disk, wire, heap>>

\* recvfrom raises: socket.timeout, or another error
QueryReceiveFails(t, outcome) ==
    /\ InQuery(t, "sent")
    /\ Goto(t, "done",
            [pc[t].arg EXCEPT !.recvfrom = @ + 1, !.sock = "closed",
                              !.exc = IF outcome = "timeout"
                                      THEN "Exception: DNS query timeout"
                                      ELSE "Exception: DNS query failed"])
    /\ UNCHANGED <<cache, stats, max_size, now, lock, disk, wire, heap>>

\* Lines 78-91 of query, with the response decoded
QueryFinish(t, call, response, put) ==
    /\ Goto(t, "done", [call EXCEPT !.ret = response])
    /\ cache' = put.cache
    /\ stats' = put.stats

QueryAnnotate(t, call, response) ==
    QueryFinish(t, call, response,
                cache_response(cache, stats, now, max_size, call, response))

QueryParsed(t, call, parsed) ==
    IF parsed.exc = Hangs.exc
    THEN Goto(t, "hung", call) /\ UNCHANGED <<cache, stats>>
    ELSE IF parsed.exc # ""
    THEN Goto(t, "done", [call EXCEPT !.exc = parsed.exc]) /\ UNCHANGED <<cache, stats>>
    ELSE QueryAnnotate(t, call, parsed.ret @@ [query_name |-> call.domain,
                                               query_type |-> call.record_type,
                                               dns_server |-> call.dns_server])

\* recvfrom returns a datagram: lines 123-140, then lines 73-91 of query
QueryReceive(t, kind) ==
    /\ InQuery(t, "sent")
    /\ QueryParsed(t, [pc[t].arg EXCEPT !.recvfrom = @ + 1, !.sock = "closed",
                                        !.response_packet =
                                            Reply(pc[t].arg.query_packet, kind)],
                   parse_response(Reply(pc[t].arg.query_packet, kind),
                                  pc[t].arg.transaction_id))
    /\ UNCHANGED <<max_size, now, lock, disk, wire, heap>>

\* query returns or raises
QueryReturn(t) ==
    /\ InQuery(t, "done")
    /\ pc' = [pc EXCEPT ![t] = Idle]
    /\ UNCHANGED <<cache, stats, max_size, now, lock, disk, wire, heap>>

\* One pass of _cleanup_loop
QuerySweep ==
    /\ Room({"cleanups"})
    /\ cache' = cleanup_expired(cache, stats, now).cache
    /\ stats' = cleanup_expired(cache, stats, now).stats
    /\ UNCHANGED <<max_size, now, lock, pc, disk, wire, heap>>

NextQuery ==
    \/ \E domain \in QueryDomains, record_type \in QueryTypes, has_cache \in BOOLEAN :
          QueryLookup(Resolver, domain, record_type, has_cache)
    \/ \E outcome \in {"socket_error", "sendto_error", "sent"} :
          QuerySend(Resolver, outcome)
    \/ \E outcome \in {"timeout", "recv_error"} : QueryReceiveFails(Resolver, outcome)
    \/ \E kind \in ReplyKinds : QueryReceive(Resolver, kind)
    \/ QueryReturn(Resolver)
    \/ QuerySweep
    \/ Tick

SpecQuery == Init /\ [][NextQuery]_vars

----------------------------------------------------------------------------
(* query called with any domain, record type, server and port: the texts   *)
(* are taken as they come, a ':' inside included, and the lookup in the    *)
(* cache comes before the encoding that validates them.                    *)

Server2 == <<57>>                   \* "9"

\* "a", "a:A", and "" which cannot be encoded
KeyDomains == {<<97>>, <<97, Colon, 65>>, <<>>}

\* "A", "NS", and "A:A" which is not supported
KeyTypes == {Str_A, Str_NS, <<65, Colon, 65>>}

KeyServers == {Server1, Server2}

\* dns_port left at its default, and another port
Ports == {DEFAULT_PORT, DEFAULT_PORT + 1}

NextKey ==
    \/ \E domain \in KeyDomains, record_type \in KeyTypes,
          dns_server \in KeyServers, dns_port \in Ports :
          QueryLookupAt(Resolver, domain, record_type, dns_server, dns_port, TRUE)
    \/ QuerySend(Resolver, "sent")
    \/ QueryReceive(Resolver, "answer")
    \/ QueryReturn(Resolver)
    \/ Tick

\* CacheManager(max_size=MaxCapacity)
InitKey == Init /\ max_size = MaxCapacity

SpecKey == InitKey /\ [][NextKey]_vars

----------------------------------------------------------------------------
(* Two threads call query for the same domain, type and server on one      *)
(* DNSClient with a cache that starts empty.  Each call has its own socket, *)
(* and the server answers each; get and set run under the lock of the      *)
(* cache, everything else in query works on locals.                        *)

RaceDomain == <<97>>

RaceKey == cache_key(RaceDomain, Str_A, Server1)

RaceReplies == {"answer", "sections"}

NextRace ==
    \/ \E t \in Callers :
          \/ QueryLookup(t, RaceDomain, Str_A, TRUE)
          \/ QuerySend(t, "sent")
          \/ \E kind \in RaceReplies : QueryReceive(t, kind)
          \/ QueryReturn(t)
    \/ QuerySweep
    \/ Tick

SpecRace == Init /\ [][NextRace]_vars

----------------------------------------------------------------------------
(* The cache and the objects of its callers.  A message is a dict whose    *)
(* 'status' is a string and whose 'answers' is a list.  dict.copy() makes a *)
(* new dict with the same items: the strings are values, the list is the   *)
(* same list object.  So a dict is a record, made anew wherever it is      *)
(* copied, and its list is an address into heap.  A caller holds the dict  *)
(* it made, passed to set, or got from get, and does with it what it likes. *)

AliasKeys == {KeyA, KeyB}

Statuses == {"NOERROR", "edited"}

Items == {"10.0.0.1", "10.0.0.2"}

Holders == {"t1"}

Holding(t) == pc[t].phase = "holding"

Hold(t, how, message) ==
    pc' = [pc EXCEPT ![t] = [op |-> how, phase |-> "holding", arg |-> message]]

\* The caller builds a message with one answer
MakeMessage(t, item) ==
    /\ pc[t] = Idle
    /\ Len(heap) < MaxObjects
    /\ heap' = Append(heap, <<item>>)
    /\ Hold(t, "made", [status |-> "NOERROR", answers |-> [ref |-> Len(heap) + 1]])
    /\ UNCHANGED <<cache, stats, max_size, now, lock, disk, wire>>

\* cache.set(key, message, ttl) with the message the caller holds; the caller
\* keeps the message, as query does with the response it caches and returns
PutHeld(t, key, ttl) ==
    /\ Holding(t)
    /\ Apply(set(cache, stats, now, max_size, key, pc[t].arg, ttl))
    /\ Hold(t, "put", pc[t].arg)
    /\ UNCHANGED <<max_size, now, lock, disk, wire, heap>>

\* message = cache.get(key): on a hit the caller holds what get returned
GetHeld(t, key) ==
    /\ pc[t] = Idle
    /\ Apply(get(cache, stats, now, key))
    /\ IF get(cache, stats, now, key).ret = None
       THEN pc' = pc
       ELSE Hold(t, "got", get(cache, stats, now, key).ret)
    /\ UNCHANGED <<max_size, now, lock, disk, wire, heap>>

\* message['status'] = status
AssignStatus(t, status) ==
    /\ Holding(t)
    /\ pc[t].arg.status # status
    /\ pc' = [pc EXCEPT ![t].arg.status = status]
    /\ UNCHANGED <<cache, stats, max_size, now, lock, disk, wire, heap>>

\* message['answers'].append(item)
AppendAnswer(t, item) ==
    /\ Holding(t)
    /\ Len(heap[pc[t].arg.answers.ref]) < MaxListLen
    /\ heap' = [heap EXCEPT ![pc[t].arg.answers.ref] = Append(@, item)]
    /\ UNCHANGED <<cache, stats, max_size, now, lock, pc, disk, wire>>

\* message['answers'][i] = item, or an edit of the record at i
EditAnswer(t, i, item) ==
    /\ Holding(t)
    /\ i \in 1..Len(heap[pc[t].arg.answers.ref])
    /\ heap[pc[t].arg.answers.ref][i] # item
    /\ heap' = [heap EXCEPT ![pc[t].arg.answers.ref][i] = item]
    /\ UNCHANGED <<cache, stats, max_size, now, lock, pc, disk, wire>>

\* The caller lets go of the message
Forget(t) ==
    /\ Holding(t)
    /\ pc' = [pc EXCEPT ![t] = Idle]
    /\ UNCHANGED <<cache, stats, max_size, now, lock, disk, wire, heap>>

NextAlias ==
    \/ \E t \in Holders :
          \/ \E item \in Items : MakeMessage(t, item)
          \/ \E key \in AliasKeys : PutHeld(t, key, 1)
          \/ \E key \in AliasKeys : GetHeld(t, key)
          \/ \E status \in Statuses : AssignStatus(t, status)
          \/ \E item \in Items : AppendAnswer(t, item)
          \/ \E i \in 1..MaxListLen, item \in Items : EditAnswer(t, i, item)
          \/ Forget(t)
    \/ Tick

SpecAlias == Init /\ [][NextAlias]_vars

----------------------------------------------------------------------------
(* A cache saved and restored: entries are put, then one caller exports the *)
(* cache to a file, clears the cache and imports the file, while the clock  *)
(* runs.  Each call is one step (each body runs under the lock).            *)

Saver == "t1"

FileKeys == {KeyA, KeyB}

FileTtls == {1, 2}

FilePut(key, data, ttl) ==
    /\ pc[Saver] = Idle
    /\ Set(key, data, ttl)

\* export_cache(filename); the caller keeps what the cache held and the time
FileExport ==
    /\ pc[Saver] = Idle
    /\ disk' = export_data(cache, stats, now, max_size)
    /\ pc' = [pc EXCEPT ![Saver] = [op |-> "export_cache", phase |-> "returned",
                                    arg |-> [entries |-> cache, exported_at |-> now,
                                             imported_at |-> now]]]
    /\ UNCHANGED <<cache, stats, max_size, now, lock, wire, heap>>

FileClear ==
    /\ pc[Saver].op = "export_cache"
    /\ Apply(clear_cache(cache, stats))
    /\ pc' = [pc EXCEPT ![Saver].op = "clear_cache"]
    /\ UNCHANGED <<max_size, now, lock, disk, wire, heap>>

\* import_cache(filename) of the file just written
FileImport ==
    /\ pc[Saver].op = "clear_cache"
    /\ Apply(import_cache(cache, stats, now, disk))
    /\ pc' = [pc EXCEPT ![Saver].op = "import_cache", ![Saver].arg.imported_at = now]
    /\ UNCHANGED <<max_size, now, lock, disk, wire, heap>>

FileReturn ==
    /\ pc[Saver].op = "import_cache"
    /\ pc' = [pc EXCEPT ![Saver] = Idle]
    /\ UNCHANGED <<cache, stats, max_size, now, lock, disk, wire, heap>>

NextFile ==
    \/ \E key \in FileKeys, data \in Dicts, ttl \in FileTtls : FilePut(key, data, ttl)
    \/ FileExport
    \/ FileClear
    \/ FileImport
    \/ FileReturn
    \/ Tick

SpecFile == Init /\ [][NextFile]_vars

----------------------------------------------------------------------------
(* The codec alone: build_query, _parse_domain_name and parse_response are  *)
(* called with arguments from bounded sets; each call is one step that      *)
(* leaves the arguments and the result with the caller.                     *)

Coder == "t1"

MaxDomainLen == 3

MaxPacketLen == 5

Repeat(c, n) == [i \in 1..n |-> c]

\* A label of n characters 'a'
LabelOf(n) == Repeat(97, n)

Dotted(labels) == join(labels, <<Dot>>)

\* Every text of up to MaxDomainLen characters over 'a', 'b' and '.'
ShortDomains == UNION {[1..n -> {97, 98, Dot}] : n \in 0..MaxDomainLen}

\* Texts at the limits of the encoder: labels of 63 and 64 characters; texts of
\* 252, 253 and 254 characters; 254 dots; a label of 64 in a text of 254
\* characters; a character outside ASCII alone and after a label of 64
LongDomains ==
    {LabelOf(63), LabelOf(64), LabelOf(63) \o <<Dot>>,
     Dotted(<<LabelOf(63), LabelOf(63), LabelOf(63), LabelOf(60)>>),
     Dotted(<<LabelOf(63), LabelOf(63), LabelOf(63), LabelOf(61)>>),
     Dotted(<<LabelOf(63), LabelOf(63), LabelOf(63), LabelOf(62)>>),
     Dotted(<<LabelOf(63), LabelOf(63), LabelOf(63), LabelOf(59)>>) \o <<Dot, Dot>>,
     Dotted(<<LabelOf(64), LabelOf(63), LabelOf(63), LabelOf(61)>>),
     Dotted(<<LabelOf(64), LabelOf(63), LabelOf(63), LabelOf(60)>>),
     Repeat(Dot, 254),
     <<233>>, <<97, Dot, 233>>, Dotted(<<LabelOf(64), <<233>>>>),
     Dotted(<<<<233>>, LabelOf(64)>>)}

CodecDomains == ShortDomains \cup LongDomains

\* The seven supported types, and "X"
CodecTypes == DOMAIN RECORD_TYPES \cup {<<88>>}

CodecIds == {-1, 0, 4660, 65535, 65536 + 4660}

\* Packets a name is decoded in: every packet of up to MaxPacketLen bytes over
\* the length bytes 0..3, the letter 'a' and the pointer mark 0xC0
PacketBytes == {0, 1, 2, 3, 97, 192}

NamePackets == UNION {[1..n -> PacketBytes] : n \in 1..MaxPacketLen}

Returned(op, call) ==
    /\ pc[Coder] = Idle
    /\ pc' = [pc EXCEPT ![Coder] = [op |-> op, phase |-> "returned", arg |-> call]]
    /\ UNCHANGED <<cache, stats, max_size, now, lock, disk, wire, heap>>

BuildQuery(domain, record_type, transaction_id) ==
    Returned("build_query",
             [domain |-> domain, record_type |-> record_type,
              transaction_id |-> transaction_id,
              result |-> build_query(domain, record_type, transaction_id)])

ParseDomainName(packet, offset) ==
    Returned("parse_domain_name",
             [packet |-> packet, offset |-> offset,
              result |-> parse_domain_name(packet, offset)])

\* A reply of 12 bytes whose flags word is made of the given fields
ParseHeader(qr, opcode, aa, tc, rd, ra, z, rcode) ==
    LET flags == qr * 32768 + opcode * 2048 + aa * 1024 + tc * 512 + rd * 256
                    + ra * 128 + z * 16 + rcode
        packet == U16(4660) \o U16(flags) \o U16(0) \o U16(0) \o U16(0) \o U16(0)
    IN  Returned("parse_header",
                 [qr |-> qr, opcode |-> opcode, aa |-> aa, tc |-> tc, rd |-> rd,
                  ra |-> ra, z |-> z, rcode |-> rcode, packet |-> packet,
                  header |-> parse_header(packet, 0),
                  result |-> parse_response(packet, 4660)])

\* The question "a" IN A
QuestionA == <<1, 97, 0>> \o U16(1) \o U16(CLASS_IN)

\* A record named by a pointer to the question, with ttl 60 and the given
\* type code and RDATA
RecordOf(code, rdata) ==
    <<192, 12>> \o U16(code) \o U16(CLASS_IN) \o U32(60) \o U16(Len(rdata)) \o rdata

\* Where the RDATA of the first answer begins
RdataAt == 12 + Len(QuestionA) + 12

\* A, NS, CNAME, PTR, MX, TXT, AAAA and a type the parser does not know
AnswerCodes == {1, 2, 5, 12, 15, 16, 28, 99}

\* RDATA of 0, 2, 3, 4, 5, 15 and 16 bytes; names that end in a pointer to the
\* question, in a pointer to themselves, and in half a pointer; the same after
\* a preference of 10; a character string
Rdatas ==
    {<<>>, <<0, 5>>, <<10, 0, 0>>, <<10, 0, 0, 1>>, <<10, 0, 0, 1, 2>>,
     Repeat(0, 14) \o <<1>>, Repeat(0, 15) \o <<1>>,
     <<192, 12>>, <<1, 98, 192, 12>>, <<192, RdataAt>>, <<1, 98, 192>>,
     <<0, 10, 192, 12>>, <<0, 10, 192, RdataAt + 2>>, <<0, 10, 1, 98, 192>>,
     <<3, 97, 98, 99>>}

\* A reply whose first answer has the given type and RDATA; with more it has a
\* second answer, an A record
ParseAnswers(code, rdata, more) ==
    LET packet == ReplyHeader(4660, 33152, IF more THEN 2 ELSE 1, 0, 0) \o QuestionA
                      \o RecordOf(code, rdata)
                      \o (IF more THEN ReplyRecord(1) ELSE <<>>)
    IN  Returned("parse_response",
                 [code |-> code, rdata |-> rdata, more |-> more, packet |-> packet,
                  result |-> parse_response(packet, 4660)])

CodecReturn ==
    /\ pc[Coder] # Idle
    /\ pc' = [pc EXCEPT ![Coder] = Idle]
    /\ UNCHANGED <<cache, stats, max_size, now, lock, disk, wire, heap>>

\* The coder makes its next call when the last one has returned
NextCodec ==
    \/ /\ pc[Coder] = Idle
       /\ \E domain \in CodecDomains, record_type \in CodecTypes,
             transaction_id \in CodecIds :
             BuildQuery(domain, record_type, transaction_id)
    \/ /\ pc[Coder] = Idle
       /\ \E packet \in NamePackets :
             \E offset \in 0..(Len(packet) - 1) : ParseDomainName(packet, offset)
    \/ /\ pc[Coder] = Idle
       /\ \E qr, aa, tc, rd, ra \in 0..1, opcode, rcode \in 0..15, z \in 0..7 :
             ParseHeader(qr, opcode, aa, tc, rd, ra, z, rcode)
    \/ /\ pc[Coder] = Idle
       /\ \E code \in AnswerCodes, rdata \in Rdatas, more \in BOOLEAN :
             ParseAnswers(code, rdata, more)
    \/ CodecReturn

SpecCodec == InitKey /\ [][NextCodec]_vars

----------------------------------------------------------------------------
(* bulk_query: one caller runs the loop over a list of domains; the query   *)
(* each pass calls runs step by step in the resolver's frame, answered or   *)
(* not by the network.                                                      *)

Bulk == "t2"

\* "a", "b", and "" which cannot be encoded
BulkDomains == {<<97>>, <<98>>, <<>>}

BulkLists == UNION {[1..n -> BulkDomains] : n \in 0..MaxListLen}

InBulk(phase) == pc[Bulk].op = "bulk_query" /\ pc[Bulk].phase = phase

\* results = {}; the frame also keeps the domains queried and what each query
\* gave, in order
BulkStart(domains) ==
    /\ pc[Bulk] = Idle
    /\ pc[Resolver] = Idle
    /\ wire.query + Len(domains) <= MaxQueries
    /\ pc' = [pc EXCEPT ![Bulk] =
                 [op |-> "bulk_query", phase |-> "loop",
                  arg |-> [domains |-> domains, i |-> 1, results |-> <<>>,
                           queried |-> <<>>, outcomes |-> <<>>,
                           queries_before |-> wire.query]]]
    /\ UNCHANGED <<cache, stats, max_size, now, lock, disk, wire, heap>>

\* for domain in domains: self.query(domain=domain, ...)
BulkQuery ==
    /\ InBulk("loop")
    /\ pc[Bulk].arg.i <= Len(pc[Bulk].arg.domains)
    /\ QueryLookupAt(Resolver, pc[Bulk].arg.domains[pc[Bulk].arg.i], Str_A, Server1,
                     DEFAULT_PORT, TRUE)

\* results[domain] = response, or {'error': str(e)} when query raised
BulkCollect ==
    /\ InBulk("loop")
    /\ InQuery(Resolver, "done")
    /\ LET call == pc[Resolver].arg
           value == IF call.exc = "" THEN call.ret ELSE [error |-> call.exc]
       IN  pc' = [pc EXCEPT ![Resolver] = Idle,
                            ![Bulk].arg.i = @ + 1,
                            ![Bulk].arg.results =
                                Store(@, [key |-> call.domain, value |-> value]),
                            ![Bulk].arg.queried = Append(@, call.domain),
                            ![Bulk].arg.outcomes = Append(@, value)]
    /\ UNCHANGED <<cache, stats, max_size, now, lock, disk, wire, heap>>

\* return results
BulkReturn ==
    /\ InBulk("loop")
    /\ pc[Resolver] = Idle
    /\ pc[Bulk].arg.i > Len(pc[Bulk].arg.domains)
    /\ pc' = [pc EXCEPT ![Bulk].phase = "returned"]
    /\ UNCHANGED <<cache, stats, max_size, now, lock, disk, wire, heap>>

BulkForget ==
    /\ InBulk("returned")
    /\ pc' = [pc EXCEPT ![Bulk] = Idle]
    /\ UNCHANGED <<cache, stats, max_size, now, lock, disk, wire, heap>>

NextBulk ==
    \/ \E domains \in BulkLists : BulkStart(domains)
    \/ BulkQuery
    \/ \E outcome \in {"sendto_error", "sent"} : QuerySend(Resolver, outcome)
    \/ QueryReceiveFails(Resolver, "timeout")
    \/ \E kind \in {"answer", "nxdomain", "short", "loop"} : QueryReceive(Resolver, kind)
    \/ BulkCollect
    \/ BulkReturn
    \/ BulkForget
    \/ Tick

SpecBulk == InitKey /\ [][NextBulk]_vars

----------------------------------------------------------------------------
(* Properties of the cache *)

Present(key) == \E i \in 1..Len(cache) : cache[i].key = key

EntryOf(key) == cache[CHOOSE i \in 1..Len(cache) : cache[i].key = key]

Without(key) == SelectSeq(cache, LAMBDA e : e.key # key)

\* C1: in every reachable state, get(key) on an absent key counts one miss
\* and returns None; on a key whose entry has now >= expires it removes the
\* entry, counts one miss and returns None; otherwise it counts one hit and
\* returns the stored data.  It never returns data of an entry with
\* now >= expires.
C1_GetContract ==
    \A key \in Keys :
        LET r == get(cache, stats, now, key) IN
        /\ r.exc = ""
        /\ IF ~Present(key)
           THEN /\ r.ret = None
                /\ r.stats = [stats EXCEPT !.misses = stats.misses + 1]
                /\ r.cache = cache
           ELSE IF now >= EntryOf(key).expires
           THEN /\ r.ret = None
                /\ r.stats = [stats EXCEPT !.misses = stats.misses + 1]
                /\ r.cache = Without(key)
           ELSE /\ r.ret = EntryOf(key).data
                /\ r.stats = [stats EXCEPT !.hits = stats.hits + 1]
                /\ r.cache = cache
        /\ r.ret # None => Present(key) /\ now < EntryOf(key).expires

\* C1 witness: a hit and a miss have been counted at a time when an entry put
\* at time 0 has expired
C1_Witness ==
    /\ stats.hits >= 1
    /\ stats.misses >= 1
    /\ now >= TicksPerSecond

\* C2: in every reachable state, set with ttl <= 0 leaves the dict and every
\* counter as they are, and a get of a key the cache did not hold then misses.
C2_NonPositiveTtlIsNoOp ==
    \A key \in Keys, data \in Dicts, ttl \in Ttls :
        ttl <= 0 =>
            LET r == set(cache, stats, now, max_size, key, data, ttl) IN
            /\ r.cache = cache
            /\ r.stats = stats
            /\ ~Present(key) => get(r.cache, r.stats, now, key).ret = None

\* C2 witness: a full cache that holds one key and lacks another, where a put
\* that stored would replace or evict
C2_Witness ==
    /\ max_size = 2
    /\ Len(cache) = max_size
    /\ Present(KeyA)
    /\ ~Present(KeyC)

\* C3 as claimed: the cache never holds more than max_size entries.
C3_SizeBound == Len(cache) <= max_size

\* In the current state, a put with positive ttl of a new key into a cache
\* that holds max_size entries, max_size being at least atLeast, removes
\* exactly one entry, one of least created, adds one to evictions, and leaves
\* the new key in and max_size entries.
EvictsOldest(atLeast) ==
    (max_size >= atLeast /\ Len(cache) = max_size) =>
        \A key \in Keys :
            ~Present(key) =>
                \A data \in Dicts, ttl \in Ttls :
                    ttl > 0 =>
                        LET r == set(cache, stats, now, max_size, key, data, ttl) IN
                        /\ \E i \in 1..Len(cache) :
                              /\ \A j \in 1..Len(cache) :
                                    cache[i].created <= cache[j].created
                              /\ r.cache = Append(Without(cache[i].key),
                                                  [key |-> key, data |-> data,
                                                   expires |-> now + ttl * TicksPerSecond,
                                                   created |-> now])
                        /\ r.stats = [stats EXCEPT !.evictions = stats.evictions + 1]
                        /\ Len(r.cache) = max_size
                        /\ \E i \in 1..Len(r.cache) : r.cache[i].key = key

C17_ClearKeepsCumulative ==
    /\ [][ClearCache => /\ cache' = <<>>
                        /\ stats'.hits = 0
                        /\ stats'.misses = 0
                        /\ stats'.evictions = stats.evictions
                        /\ stats'.cleanups = stats.cleanups
                        /\ max_size' = max_size]_vars
    /\ [](LET cleared == clear_cache(cache, stats)
              report == get_stats(cleared.cache, cleared.stats, max_size).ret
          IN  /\ cleared.exc = ""
              /\ report.total_entries = 0
              /\ report.hits = 0
              /\ report.misses = 0
              /\ report.evictions = stats.evictions
              /\ report.cleanups = stats.cleanups
              /\ \A key \in Keys : ~Has(cleared.cache, key))

\* A cache with an entry in which every counter has been raised: a
\* clear_cache here has entries to remove, two counters to reset and two to
\* keep
C17_Witness ==
    /\ Len(cache) >= 1
    /\ stats.hits >= 1
    /\ stats.misses >= 1
    /\ stats.evictions >= 1
    /\ stats.cleanups >= 1

\* The entries of the cache that have not expired, in dict order
Live == SelectSeq(cache, LAMBDA e : now < e.expires)

\* C18: in every reachable state is_cached(key) returns TRUE exactly when the
\* key has an entry with now < expires, which is exactly when get(key) returns
\* a response; it removes the entry of the key when that entry has expired and
\* leaves the dict alone otherwise; and it leaves every counter as it is.
C18_IsCachedLikeGetWithoutCounting ==
    \A key \in Keys :
        LET r == is_cached(cache, stats, now, key)
            g == get(cache, stats, now, key)
        IN  /\ r.exc = ""
            /\ r.ret \in BOOLEAN
            /\ r.ret <=> (Present(key) /\ now < EntryOf(key).expires)
            /\ r.ret <=> (g.ret # None)
            /\ r.cache = g.cache
            /\ r.cache = IF Present(key) /\ now >= EntryOf(key).expires
                         THEN Without(key) ELSE cache
            /\ r.stats = stats
            /\ g.stats # stats

\* The cache holds an expired entry and one that has not expired, after a hit
\* and a miss: is_cached removes the first and reports the second
C18_Witness ==
    /\ \E i \in 1..Len(cache) : now >= cache[i].expires
    /\ \E i \in 1..Len(cache) : now < cache[i].expires
    /\ stats.hits = 1
    /\ stats.misses = 1

\* C19: in every reachable state one pass of the sweep keeps exactly the
\* entries with now < expires, in their order, and removes the others; it adds
\* 1 to cleanups when it removed an entry, however many, and 0 when it removed
\* none; it changes no other counter.
C19_SweepRemovesExpiredCountsOnce ==
    /\ [](LET r == cleanup_expired(cache, stats, now) IN
          /\ r.exc = ""
          /\ r.cache = Live
          /\ \A i \in 1..Len(cache) :
                Has(r.cache, cache[i].key) <=> now < cache[i].expires
          /\ r.ret = Len(cache) - Len(Live)
          /\ r.stats = [stats EXCEPT !.cleanups = IF Len(Live) < Len(cache)
                                                  THEN stats.cleanups + 1
                                                  ELSE stats.cleanups])
    /\ [][Sweep => /\ cache' = Live
                   /\ stats'.hits = stats.hits
                   /\ stats'.misses = stats.misses
                   /\ stats'.evictions = stats.evictions
                   /\ stats'.cleanups - stats.cleanups \in {0, 1}
                   /\ stats'.cleanups = stats.cleanups <=> cache' = cache]_vars

\* Two expired entries and one that has not expired, before any cleanup was
\* counted: one pass removes two entries and counts one cleanup
C19_Witness ==
    /\ Cardinality({i \in 1..Len(cache) : now >= cache[i].expires}) = 2
    /\ \E i \in 1..Len(cache) : now < cache[i].expires
    /\ stats.cleanups = 0
    /\ stats.hits = 1

----------------------------------------------------------------------------
(* Properties of the cache under threads *)

Inside(t) == pc[t].phase \in {"cs", "stats", "dump"}

\* C5: the entry map and the counters are read or changed only by a thread
\* that holds the one lock, and at most one thread is inside a locked
\* operation at any time.
C5_MutualExclusion ==
    /\ [](\A t \in Threads : Inside(t) => lock.owner = t /\ lock.count >= 1)
    /\ [](\A t, u \in Threads : Inside(t) /\ Inside(u) => t = u)
    /\ [][(cache' # cache \/ stats' # stats) =>
            /\ lock.owner # NoThread
            /\ pc[lock.owner].phase = "cs"
            /\ \A t \in Threads \ {lock.owner} : ~Inside(t) /\ pc'[t] = pc[t]]_vars

\* One caller is inside a locked operation on a cache that holds an entry,
\* while the other has loaded an import file and is about to take the lock.
C5_Witness ==
    /\ pc["t1"].phase = "cs"
    /\ pc["t2"].phase = "loaded"
    /\ Len(cache) >= 1

\* The step in which thread t runs the body of get
GetStep(t) == At(t, "get", "cs") /\ pc'[t] = Idle

\* The step in which thread t runs the body of clear_cache
ClearStep(t) == At(t, "clear_cache", "cs") /\ pc'[t] = Idle

\* C16: hits and misses start at 0; the body of a get adds one to hits and
\* nothing to misses when the key has an entry with now < expires, and one to
\* misses and nothing to hits otherwise; clear_cache sets both to 0; no step
\* of set, is_cached, get_ttl, delete, get_stats, get_cache_contents,
\* export_cache, import_cache or the sweep changes either.  In every state
\* get_stats reports the two counters as they are, hit_ratio =
\* hits / (hits + misses) when a get has been counted, and hit_ratio = 0 when
\* none has.
C16_HitMissCounters ==
    /\ stats.hits = 0 /\ stats.misses = 0
    /\ [][\A t \in Callers :
            GetStep(t) =>
                IF Present(pc[t].arg.key) /\ now < EntryOf(pc[t].arg.key).expires
                THEN stats'.hits = stats.hits + 1 /\ stats'.misses = stats.misses
                ELSE stats'.misses = stats.misses + 1 /\ stats'.hits = stats.hits]_vars
    /\ [][\A t \in Callers :
            ClearStep(t) => stats'.hits = 0 /\ stats'.misses = 0]_vars
    /\ [][(\A t \in Callers : ~GetStep(t) /\ ~ClearStep(t))
            => stats'.hits = stats.hits /\ stats'.misses = stats.misses]_vars
    /\ [](LET report == get_stats(cache, stats, max_size).ret
          IN  /\ report.hits = stats.hits
              /\ report.misses = stats.misses
              /\ IF stats.hits + stats.misses = 0
                 THEN report.hit_ratio.num = 0
                 ELSE report.hit_ratio.num * (stats.hits + stats.misses)
                        = stats.hits * report.hit_ratio.den
              /\ report.hit_ratio.den > 0)
    /\ [](\A t \in Callers :
            At(t, "export_cache", "dump")
                => /\ pc[t].arg.stats.hits = stats.hits
                   /\ pc[t].arg.stats.misses = stats.misses)

\* An export has read the statistics after one hit and one miss: hit_ratio
\* is 1/2
C16_Witness ==
    /\ stats.hits = 1
    /\ stats.misses = 1
    /\ \E t \in Callers :
          /\ At(t, "export_cache", "dump")
          /\ pc[t].arg.stats.hit_ratio = [num |-> 1, den |-> 2]

----------------------------------------------------------------------------
(* Properties of the resolver *)

Call == pc[Resolver].arg

CallKey == cache_key(Call.domain, Call.record_type, Call.dns_server)

Done == InQuery(Resolver, "done")

\* C6: a query whose key has an unexpired entry in the configured cache
\* returns that entry's message, counts one hit, and neither encodes a query
\* nor sends nor receives; once it has its result it only returns.  So when the
\* second of two queries is such a hit, one datagram was sent in total and one
\* miss and one hit were counted.
C6_CacheHitSkipsNetwork ==
    /\ [][\A domain \in QueryDomains, record_type \in QueryTypes :
            LET key == cache_key(domain, record_type, Server1)
            IN  (/\ QueryLookup(Resolver, domain, record_type, TRUE)
                 /\ Present(key)
                 /\ now < EntryOf(key).expires)
                => /\ pc'[Resolver].phase = "done"
                   /\ pc'[Resolver].arg.ret = EntryOf(key).data
                   /\ pc'[Resolver].arg.exc = ""
                   /\ pc'[Resolver].arg.build_query = 0
                   /\ pc'[Resolver].arg.sendto = 0
                   /\ pc'[Resolver].arg.recvfrom = 0
                   /\ wire'.sendto = wire.sendto
                   /\ stats' = [stats EXCEPT !.hits = @ + 1]
                   /\ cache' = cache]_vars
    /\ [][Done => wire'.sendto = wire.sendto /\ pc'[Resolver] \in {pc[Resolver], Idle}]_vars
    /\ [](Done /\ Call.cache_hit /\ wire.query = 2
            => wire.sendto = 1 /\ stats.hits = 1 /\ stats.misses = 1)

\* The second of two queries has returned the cached result of the first
C6_Witness ==
    /\ Done
    /\ Call.cache_hit
    /\ Call.sendto = 0
    /\ wire = [query |-> 2, sendto |-> 1]
    /\ stats.hits = 1
    /\ stats.misses = 1
    /\ Present(CallKey)
    /\ Call.ret = EntryOf(CallKey).data

\* What query raises when it fails while transmitting or decoding
TransmissionFailures ==
    {"Exception: DNS query failed", "Exception: DNS query timeout",
     "Exception: DNS packet too short (minimum 12 bytes required)",
     "Exception: Transaction ID mismatch"}

Failed == Done /\ Call.exc \in TransmissionFailures

\* C7 as claimed: when a query has failed while transmitting or decoding, the
\* entries of the cache equal the entries at the time of the call (in runs
\* where the sweeper has removed nothing, so that every change is the call's).
C7_FailureLeavesEntriesAsClaimed ==
    Failed /\ stats.cleanups = 0 => cache = Call.entries_before

\* C7: a query that fails while transmitting or decoding creates and replaces
\* no entry.  Its lookup removes the entry of its key when that entry has
\* expired and changes nothing else; no later step of the failing call changes
\* the entries.
C7_FailureStoresNothing ==
    /\ [](Failed /\ stats.cleanups = 0
            => /\ cache \in {Call.entries_before, Del(Call.entries_before, CallKey)}
               /\ cache # Call.entries_before
                    => /\ Call.has_cache
                       /\ Has(Call.entries_before, CallKey)
                       /\ Entry(Call.entries_before, CallKey).expires <= now)
    /\ [][pc[Resolver] = Idle /\ pc'[Resolver] # Idle
            => \/ cache' = cache
               \/ /\ pc'[Resolver].arg.has_cache
                  /\ Present(cache_key(pc'[Resolver].arg.domain,
                                       pc'[Resolver].arg.record_type,
                                       pc'[Resolver].arg.dns_server))
                  /\ now >= EntryOf(cache_key(pc'[Resolver].arg.domain,
                                              pc'[Resolver].arg.record_type,
                                              pc'[Resolver].arg.dns_server)).expires
                  /\ cache' = Del(cache, cache_key(pc'[Resolver].arg.domain,
                                                   pc'[Resolver].arg.record_type,
                                                   pc'[Resolver].arg.dns_server))]_vars
    /\ [][(/\ pc[Resolver].phase \in {"built", "sent"}
           /\ pc'[Resolver].phase = "done"
           /\ pc'[Resolver].arg.exc # "")
            => cache' = cache /\ stats' = stats]_vars

\* A query with a cache has failed on a reply with another transaction id
\* while the cache holds an entry
C7_Witness ==
    /\ Done
    /\ Call.exc = "Exception: Transaction ID mismatch"
    /\ Call.has_cache
    /\ Len(cache) >= 1
    /\ cache = Call.entries_before

\* A response is partially decoded when a section holds fewer items than the
\* header of the packet announces
PartiallyDecoded(packet, response) ==
    \/ Len(response.questions) # parse_header(packet, 0).qdcount
    \/ Len(response.answers) # parse_header(packet, 0).ancount
    \/ Len(response.authority) # parse_header(packet, 0).nscount
    \/ Len(response.additional) # parse_header(packet, 0).arcount

\* The least ttl of the records of the three sections, 300 when there is none
LeastTtl(response) ==
    LET ttls == {response.answers[i].ttl : i \in 1..Len(response.answers)}
                \cup {response.authority[i].ttl : i \in 1..Len(response.authority)}
                \cup {response.additional[i].ttl : i \in 1..Len(response.additional)}
    IN  IF ttls = {} THEN 300 ELSE CHOOSE m \in ttls : \A x \in ttls : m <= x

\* The step in which the resolver decodes a reply and returns the response
Decoded ==
    /\ pc[Resolver].phase = "sent"
    /\ pc'[Resolver].phase = "done"
    /\ pc'[Resolver].arg.exc = ""

\* The entries of c2 that c1 does not hold as they are
Stored(c1, c2) == {e.key : e \in {c2[i] : i \in 1..Len(c2)} \ {c1[i] : i \in 1..Len(c1)}}

\* C8 as claimed: a decoded response whose status is not NOERROR, whose least
\* ttl is 0, or which is partially decoded is returned with the entries of the
\* cache unchanged.
C8_PartialNotCachedAsClaimed ==
    [][Decoded /\ (\/ pc'[Resolver].arg.ret.status # "NOERROR"
                   \/ LeastTtl(pc'[Resolver].arg.ret) = 0
                   \/ PartiallyDecoded(pc'[Resolver].arg.response_packet,
                                       pc'[Resolver].arg.ret))
         => cache' = cache]_vars

\* C8: the resolver creates or replaces an entry only when it has a cache and
\* decodes a response with status NOERROR and a positive least ttl, and then
\* for the key of the query alone; a response with another status or with a
\* least ttl of 0 is returned with the entries unchanged.  A NOERROR response
\* that is partially decoded is cached like any other, under the least ttl of
\* the records that were decoded, or 300 when none was.
C8_CachedOnlyNoErrorPositiveTtl ==
    /\ [][Stored(cache, cache') # {}
            => /\ Decoded
               /\ pc'[Resolver].arg.has_cache
               /\ pc'[Resolver].arg.ret.status = "NOERROR"
               /\ LeastTtl(pc'[Resolver].arg.ret) > 0
               /\ Stored(cache, cache')
                    = {cache_key(pc[Resolver].arg.domain, pc[Resolver].arg.record_type,
                                 pc[Resolver].arg.dns_server)}]_vars
    /\ [][Decoded /\ (\/ pc'[Resolver].arg.ret.status # "NOERROR"
                      \/ LeastTtl(pc'[Resolver].arg.ret) = 0)
            => cache' = cache /\ stats' = stats]_vars
    /\ [][(/\ Decoded
           /\ pc'[Resolver].arg.has_cache
           /\ pc'[Resolver].arg.ret.status = "NOERROR"
           /\ LeastTtl(pc'[Resolver].arg.ret) > 0)
            => Stored(cache, cache') # {}]_vars

\* A NXDOMAIN response was returned by a query with a cache, and the cache holds
\* the partially decoded NOERROR response of an earlier query
C8_Witness ==
    /\ Done
    /\ Call.exc = ""
    /\ ~Call.cache_hit
    /\ Call.has_cache
    /\ Call.ret.status = "NXDOMAIN"
    /\ cache = Call.entries_before
    /\ \E i \in 1..Len(cache) :
          /\ cache[i].data.status = "NOERROR"
          /\ Len(cache[i].data.answers) = 1
          /\ cache[i].data.answers[1].ttl = 2

\* C9: when the resolver caches a NOERROR response, the entry of the query's
\* key holds that response, was created at the time of the put, and expires
\* that time plus the least ttl of the records of the answer, authority and
\* additional sections together, or plus 300 seconds when no section holds a
\* record.
C9_EntryTtlIsLeastTtl ==
    [][(/\ Decoded
        /\ pc'[Resolver].arg.has_cache
        /\ pc'[Resolver].arg.ret.status = "NOERROR"
        /\ LeastTtl(pc'[Resolver].arg.ret) > 0)
         => LET key == cache_key(pc[Resolver].arg.domain, pc[Resolver].arg.record_type,
                                 pc[Resolver].arg.dns_server)
            IN  /\ Has(cache', key)
                /\ Entry(cache', key).data = pc'[Resolver].arg.ret
                /\ Entry(cache', key).created = now
                /\ Entry(cache', key).expires
                     = now + LeastTtl(pc'[Resolver].arg.ret) * TicksPerSecond]_vars

\* The cache holds two responses: one with records in all three sections, the
\* least ttl among them in the authority section, and one without any record
C9_Witness ==
    /\ Done
    /\ \E i \in 1..Len(cache) :
          /\ cache[i].data.answers # <<>>
          /\ cache[i].data.authority # <<>>
          /\ cache[i].data.additional # <<>>
          /\ cache[i].data.authority[1].ttl < cache[i].data.answers[1].ttl
          /\ cache[i].expires = cache[i].created + cache[i].data.authority[1].ttl * TicksPerSecond
    /\ \E i \in 1..Len(cache) :
          /\ cache[i].data.answers = <<>>
          /\ cache[i].data.authority = <<>>
          /\ cache[i].data.additional = <<>>
          /\ cache[i].expires = cache[i].created + 300 * TicksPerSecond

\* A call that has missed the cache, or has none
Missed == pc[Resolver].op = "query" /\ ~Call.cache_hit

ExpectedIds == {NoExpectedId, 0, 4659, 4660, 4661}

\* C11: parse_response, given an expected id, raises the transaction id
\* mismatch for every packet of 12 bytes or more whose header id differs from
\* it, whatever the sections hold (a name that would never be decoded
\* included), and validates nothing when no id is expected.  So a response the
\* resolver decodes carries the transaction id of the query it sent, a reply
\* with another id makes the query raise and leaves the cache as it is, and
\* every response the cache holds was stored under the id of its query.
C11_TransactionIdValidated ==
    /\ [](InQuery(Resolver, "sent") =>
            \A kind \in ReplyKinds, expected_id \in ExpectedIds :
                LET packet == Reply(Call.query_packet, kind)
                    parsed == parse_response(packet, expected_id)
                IN  /\ (/\ Len(packet) >= 12
                        /\ expected_id # NoExpectedId
                        /\ UnpackH(SubSeq(packet, 1, 2)) # expected_id)
                       => parsed.exc = "Exception: Transaction ID mismatch"
                    /\ parsed.exc = "Exception: Transaction ID mismatch"
                       => /\ expected_id # NoExpectedId
                          /\ UnpackH(SubSeq(packet, 1, 2)) # expected_id)
    /\ [][Decoded => /\ pc'[Resolver].arg.ret.id = pc[Resolver].arg.transaction_id
                     /\ UnpackH(SubSeq(pc'[Resolver].arg.response_packet, 1, 2))
                          = pc[Resolver].arg.transaction_id]_vars
    /\ [][(/\ pc[Resolver].phase = "sent"
           /\ pc'[Resolver].phase # "sent"
           /\ Len(pc'[Resolver].arg.response_packet) >= 12
           /\ UnpackH(SubSeq(pc'[Resolver].arg.response_packet, 1, 2))
                # pc[Resolver].arg.transaction_id)
            => /\ pc'[Resolver].phase = "done"
               /\ pc'[Resolver].arg.exc = "Exception: Transaction ID mismatch"
               /\ pc'[Resolver].arg.ret = None
               /\ cache' = cache
               /\ stats' = stats]_vars
    /\ [](\A i \in 1..Len(cache) : cache[i].data.id \in TxIds)

\* A query with a cache has received a reply that answers its question under
\* another transaction id: it raises, and the cache is empty
C11_Witness ==
    /\ Done
    /\ Call.has_cache
    /\ Call.recvfrom = 1
    /\ Len(Call.response_packet) > 12
    /\ UnpackH(SubSeq(Call.response_packet, 1, 2)) # Call.transaction_id
    /\ Call.exc = "Exception: Transaction ID mismatch"
    /\ Call.ret = None
    /\ cache = <<>>

\* C12 as claimed: the decoding of names ends on every packet.  No reply makes
\* parse_response run forever, and no query is left decoding for good.
C12_NameDecodingTerminates ==
    /\ pc[Resolver].phase # "hung"
    /\ InQuery(Resolver, "sent") =>
          \A kind \in ReplyKinds :
              parse_response(Reply(Call.query_packet, kind),
                             Call.transaction_id).exc # Hangs.exc

\* A reply with one record in each section, cut after its first n bytes
CutReply(query_packet, n) == SubSeq(Reply(query_packet, "sections"), 1, n)

\* Where the k-th item of that reply ends: the question is item 0, and each
\* record takes as many bytes as ReplyRecord makes
ItemEnd(query_packet, k) == Len(query_packet) + k * Len(ReplyRecord(0))

\* C13 as claimed: a reply that ends inside a question or record is decoded
\* without an exception to a response with the id and status of the header
\* whose sections hold exactly the items that lie wholly before the cut, and
\* nothing of the item that was cut.
C13_PartialDecodeAsClaimed ==
    InQuery(Resolver, "sent") =>
        \A n \in 12..Len(Reply(Call.query_packet, "sections")) :
            LET whole == parse_response(Reply(Call.query_packet, "sections"),
                                        Call.transaction_id).ret
                part == parse_response(CutReply(Call.query_packet, n),
                                       Call.transaction_id)
                upto(items, k) == IF n >= ItemEnd(Call.query_packet, k)
                                  THEN items ELSE <<>>
            IN  /\ part.exc = ""
                /\ part.ret.id = Call.transaction_id
                /\ part.ret.status = "NOERROR"
                /\ part.ret.questions = upto(whole.questions, 0)
                /\ part.ret.answers = upto(whole.answers, 1)
                /\ part.ret.authority = upto(whole.authority, 2)
                /\ part.ret.additional = upto(whole.additional, 3)

----------------------------------------------------------------------------
(* Properties of the cache and its callers' objects *)

\* A message as a reader sees it, with its list read through
Deep(message) == [status |-> message.status, answers |-> heap[message.answers.ref]]

\* What the cache holds, per entry, as a get would show it
DeepEntries == [i \in 1..Len(cache) |-> [key |-> cache[i].key, data |-> Deep(cache[i].data)]]

\* The caller changes the message it holds
Mutates(t) ==
    /\ Holding(t)
    /\ pc'[t].op = pc[t].op
    /\ pc'[t].phase = "holding"
    /\ (pc'[t].arg # pc[t].arg \/ heap' # heap)

\* C14 as claimed: whatever a caller does to a message it got from get, at any
\* depth, what the cache holds is left as it was stored.
C14_GetResultSharesNothing ==
    [][\A t \in Holders : (pc[t].op = "got" /\ Mutates(t))
                            => DeepEntries' = DeepEntries]_vars

\* C15 as claimed: whatever a caller does to a message after it passed it to
\* set, at any depth, what the cache holds is left as it was stored.
C15_PutStoresDeepCopy ==
    [][\A t \in Holders : (pc[t].op = "put" /\ Mutates(t))
                            => DeepEntries' = DeepEntries]_vars

----------------------------------------------------------------------------
(* Properties of concurrent queries *)

\* The step in which thread t decodes its reply, caches the response and has
\* its result
Puts(t) == pc[t].phase = "sent" /\ pc'[t].phase = "done"

\* C20: two concurrent queries for one key, each answered by the server.  No
\* call raises or hangs; a call that has its result has a decoded NOERROR
\* response to its own query.  The cache never holds more than one entry for
\* the key; each put leaves exactly one entry, holding the response of the call
\* that put it; and no other step changes the entry except to remove it once it
\* has expired.  So when both calls have their result before the shortest ttl
\* has run out, the cache holds exactly one entry: the response of the call
\* that put last.
C20_ConcurrentQueriesLastPutWins ==
    /\ [](\A t \in Callers :
            pc[t].op = "query" => pc[t].arg.exc = "" /\ pc[t].phase # "hung")
    /\ [](\A t \in Callers :
            InQuery(t, "done")
                => /\ pc[t].arg.ret # None
                   /\ pc[t].arg.ret.status = "NOERROR"
                   /\ pc[t].arg.ret.id \in TxIds
                   /\ pc[t].arg.ret.query_name = RaceDomain
                   /\ pc[t].arg.ret.answers # <<>>
                   /\ pc[t].arg.cache_hit <=> pc[t].arg.sendto = 0)
    /\ [](Len(cache) <= 1 /\ \A i \in 1..Len(cache) : cache[i].key = RaceKey)
    /\ [][\A t \in Callers :
            Puts(t) => /\ Len(cache') = 1
                       /\ cache'[1].key = RaceKey
                       /\ cache'[1].data = pc'[t].arg.ret
                       /\ cache'[1].created = now
                       /\ now < cache'[1].expires]_vars
    /\ [][(\A t \in Callers : ~Puts(t))
            => \/ cache' = cache
               \/ /\ cache' = <<>>
                  /\ now >= cache[1].expires]_vars
    /\ []((/\ \A t \in Callers : InQuery(t, "done")
           /\ now < TicksPerSecond)
            => /\ Len(cache) = 1
               /\ \E t \in Callers : cache[1].data = pc[t].arg.ret)

\* Both calls missed, both sent and both put, with different responses: the
\* cache holds one entry, the response of the second thread, which put last
C20_Witness ==
    /\ \A t \in Callers : InQuery(t, "done") /\ ~pc[t].arg.cache_hit
                            /\ pc[t].arg.sendto = 1 /\ pc[t].arg.exc = ""
    /\ wire = [query |-> 2, sendto |-> 2]
    /\ stats.misses = 2
    /\ pc["t1"].arg.ret # pc["t2"].arg.ret
    /\ Len(cache) = 1
    /\ cache[1].data = pc["t2"].arg.ret

----------------------------------------------------------------------------
(* Properties of the cache key and of validation *)

\* The step in which the resolver starts a query and finds it in the cache
Hit == pc[Resolver] = Idle /\ pc'[Resolver].op = "query" /\ pc'[Resolver].arg.cache_hit

HasColon(text) == \E i \in 1..Len(text) : text[i] = 58

\* domain, ':', record type, ':', server, as one text
KeyText(domain, record_type, dns_server) ==
    domain \o <<58>> \o record_type \o <<58>> \o dns_server

\* The query the cached response m was the answer to: query annotates each
\* response with its domain, record type and server before caching it
SameQuery(m, call) ==
    /\ m.query_name = call.domain
    /\ m.query_type = call.record_type
    /\ m.dns_server = call.dns_server

\* A query for a domain, record type and server whose response is in the
\* cache and has not expired is answered from the cache, whatever its port
PortIgnored ==
    [][\A domain \in KeyDomains, record_type \in KeyTypes,
          dns_server \in KeyServers, dns_port \in Ports :
            (/\ QueryLookupAt(Resolver, domain, record_type, dns_server, dns_port, TRUE)
             /\ \E i \in 1..Len(cache) :
                   /\ cache[i].data.query_name = domain
                   /\ cache[i].data.query_type = record_type
                   /\ cache[i].data.dns_server = dns_server
                   /\ now < cache[i].expires)
            => /\ Hit
               /\ SameQuery(pc'[Resolver].arg.ret, pc'[Resolver].arg)
               /\ pc'[Resolver].arg.sendto = 0
               /\ pc'[Resolver].arg.build_query = 0
               /\ wire'.sendto = wire.sendto]_vars

\* C21 as claimed: the port is no part of the key, and a query is answered from
\* the cache only with the response to a query for the same domain, record
\* type and server.
C21_KeyAsClaimed ==
    /\ PortIgnored
    /\ [][Hit => SameQuery(pc'[Resolver].arg.ret, pc'[Resolver].arg)]_vars

\* What holds of the key: the port is no part of it: a query whose domain, record type and
\* server are those of an unexpired cached response is answered from the cache
\* without encoding or sending, also when its port differs from the port the
\* response came from.  The key is the text domain:type:server: an entry is
\* kept under the key text of the query that stored it, a query is answered
\* from the cache exactly with the entry of its own key text, and two queries
\* that differ in domain, record type or server share an entry only when a ':'
\* inside one of these makes their key texts equal.
C21_KeyIsConcatenation ==
    /\ PortIgnored
    /\ [](\A i \in 1..Len(cache) :
            cache[i].key = KeyText(cache[i].data.query_name, cache[i].data.query_type,
                                   cache[i].data.dns_server))
    /\ [][Hit => LET call == pc'[Resolver].arg
                     m == call.ret
                 IN  /\ KeyText(m.query_name, m.query_type, m.dns_server)
                          = KeyText(call.domain, call.record_type, call.dns_server)
                     /\ (~HasColon(call.domain) /\ ~HasColon(call.record_type)
                         /\ ~HasColon(call.dns_server) /\ ~HasColon(m.query_name))
                        => SameQuery(m, call)
                     /\ m.dns_server = call.dns_server]_vars

\* A query has been answered from the cache with the response to a query for
\* another domain and record type
C21_Witness ==
    /\ Done
    /\ Call.cache_hit
    /\ Call.exc = ""
    /\ ~SameQuery(Call.ret, Call)
    /\ KeyText(Call.ret.query_name, Call.ret.query_type, Call.ret.dns_server)
         = KeyText(Call.domain, Call.record_type, Call.dns_server)

----------------------------------------------------------------------------
(* Properties of export and import *)

\* The caller has exported, cleared and imported
Restored == pc[Saver].op = "import_cache"

\* The entries the cache held when it was exported
AtExport == pc[Saver].arg.entries

\* The ticks an entry had left when the cache was exported
Left(e) == e.expires - pc[Saver].arg.exported_at

\* The whole seconds in a number of ticks: int() of the difference of two times
WholeSeconds(ticks) == ticks \div TicksPerSecond

\* Each entry the cache holds is an entry of the export, with its message and
\* with expires = import time + the ttl_remaining exported
RestoredAsExported ==
    \A i \in 1..Len(cache) :
       \E j \in 1..Len(AtExport) :
          /\ AtExport[j].key = cache[i].key
          /\ AtExport[j].data = cache[i].data
          /\ \E k \in 1..Len(disk.entries) :
                /\ disk.entries[k].key = cache[i].key
                /\ disk.entries[k].data = cache[i].data
                /\ disk.entries[k].ttl_remaining = WholeSeconds(Left(AtExport[j]))
                /\ disk.entries[k].ttl_remaining > 0
                /\ cache[i].expires = pc[Saver].arg.imported_at
                                        + disk.entries[k].ttl_remaining * TicksPerSecond

\* C22 as claimed: after export, clear and import the keys of the cache are the
\* keys that were present and unexpired at export.
C22_RestoresAsClaimed ==
    Restored =>
       /\ KeysOf(cache) = {AtExport[j].key : j \in {j \in 1..Len(AtExport) : Left(AtExport[j]) > 0}}
       /\ RestoredAsExported

\* C22: after export, clear and import of the exported file the keys of the
\* cache are the keys of the entries that had at least one whole second left at
\* export (ttl_remaining is the time left cut to whole seconds, and an entry
\* with ttl_remaining 0 is skipped by import although it had not expired); each
\* has the message it had and expires = import time + the exported
\* ttl_remaining; the file holds exactly the entries unexpired at export; the
\* counters are those clear left.
C22_RestoresWholeSeconds ==
    /\ pc[Saver].op \in {"export_cache", "clear_cache", "import_cache"} =>
          /\ {disk.entries[k].key : k \in 1..Len(disk.entries)}
               = {AtExport[j].key : j \in {j \in 1..Len(AtExport) : Left(AtExport[j]) > 0}}
          /\ \A k \in 1..Len(disk.entries) :
                \E j \in 1..Len(AtExport) :
                   /\ AtExport[j].key = disk.entries[k].key
                   /\ AtExport[j].data = disk.entries[k].data
                   /\ disk.entries[k].ttl_remaining = WholeSeconds(Left(AtExport[j]))
    /\ Restored =>
          /\ KeysOf(cache)
               = {AtExport[j].key :
                     j \in {j \in 1..Len(AtExport) : Left(AtExport[j]) >= TicksPerSecond}}
          /\ RestoredAsExported
          /\ stats.hits = 0 /\ stats.misses = 0

\* Restored from an export taken when one entry had a whole second left and
\* the other, not yet expired, had less
C22_Witness ==
    /\ Restored
    /\ Len(cache) = 1
    /\ \E j \in 1..Len(AtExport) : Left(AtExport[j]) > 0 /\ ~Has(cache, AtExport[j].key)

----------------------------------------------------------------------------
(* Properties of the codec *)

\* What the coder's last call was given and what it gave back
Job == pc[Coder].arg

Built == pc[Coder].op = "build_query" /\ Job.record_type \in DOMAIN RECORD_TYPES

Accepted == Built /\ Job.result.exc = ""

\* i is where a label of the text begins: a character other than '.' at the
\* start of the text or after a '.'
LabelStart(text, i) == text[i] # Dot /\ (i = 1 \/ text[i - 1] = Dot)

\* The label that begins at i has more than n characters
LongerThan(text, i, n) ==
    /\ LabelStart(text, i)
    /\ i + n <= Len(text)
    /\ \A k \in i..(i + n) : text[k] # Dot

HasLongLabel(text) == \E i \in 1..Len(text) : LongerThan(text, i, 63)

\* One length byte and the label's characters for each label that is not empty
EncodedLength(text) ==
    Cardinality({i \in 1..Len(text) : text[i] # Dot})
        + Cardinality({i \in 1..Len(text) : LabelStart(text, i)})

\* No label of the text is empty: "a.b", but not "", "a.", ".a" or "a..b"
NoEmptyLabel(text) ==
    /\ text # <<>>
    /\ text[1] # Dot
    /\ text[Len(text)] # Dot
    /\ \A i \in 1..(Len(text) - 1) : ~(text[i] = Dot /\ text[i + 1] = Dot)

\* The labels of a text that are not empty, joined by '.'; "." when there is none
WithoutEmptyLabels(text) ==
    LET labels == SelectSeq(split(text, Dot), LAMBDA l : l # <<>>)
    IN  IF labels = <<>> THEN <<Dot>> ELSE join(labels, <<Dot>>)

\* C23: for every domain build_query accepts, the name decoded at offset 12 of
\* the packet is the domain when none of its labels is empty (so for every
\* domain whose labels all have 1 to 63 bytes), and the offset the decoder
\* returns is the offset of the question's type field, the last four bytes of
\* the packet.  An accepted domain with empty labels ("a.", "a..b", ".")
\* decodes to its other labels joined by '.', or to "." when it has none.
C23_RoundTrip ==
    Accepted =>
       LET packet == Job.result.ret
           n == parse_domain_name(packet, 12)
       IN  /\ n.exc = ""
           /\ n.ret.offset = Len(packet) - 4
           /\ UnpackH(Slice(packet, n.ret.offset, n.ret.offset + 2))
                = RECORD_TYPES[Job.record_type]
           /\ NoEmptyLabel(Job.domain) => n.ret.name = Job.domain
           /\ n.ret.name = WithoutEmptyLabels(Job.domain)

\* A domain of 253 characters in four labels was encoded
C23_Witness ==
    /\ Accepted
    /\ Len(Job.domain) = 253
    /\ NoEmptyLabel(Job.domain)
    /\ parse_domain_name(Job.result.ret, 12).ret.name = Job.domain

LabelTooLong == "ValueError: Label too long"

InvalidDomainName == "ValueError: Invalid domain name length"

\* C24 as claimed: a label of more than 63 bytes fails with LabelTooLong, an
\* encoded form of more than 253 bytes fails with InvalidDomainName (either of
\* the two when both are the case), every other non-empty domain is encoded.
C24_LimitsAsClaimed ==
    Built =>
       LET exc == Job.result.exc
           long == HasLongLabel(Job.domain)
           over == EncodedLength(Job.domain) > 253
       IN  /\ long /\ ~over => exc = LabelTooLong
           /\ over /\ ~long => exc = InvalidDomainName
           /\ long /\ over => exc \in {LabelTooLong, InvalidDomainName}
           /\ ~long /\ ~over /\ Job.domain # <<>> => exc = ""

\* Where the labels begin that the encoder refuses: those longer than 63 and
\* those with a character outside ASCII
Refused(text) ==
    {i \in 1..Len(text) :
        /\ LabelStart(text, i)
        /\ \/ LongerThan(text, i, 63)
           \/ \E k \in i..Len(text) :
                 text[k] > 127 /\ \A j \in i..k : text[j] # Dot}

FirstRefused(text) == CHOOSE i \in Refused(text) : \A j \in Refused(text) : i <= j

\* C24: the limit of 253 is on the characters of the domain text, dots
\* included, not on the encoded form.  build_query fails with 'Invalid domain
\* name length' exactly when the text is empty or longer than 253 characters,
\* whatever its labels are; otherwise it fails at the first label that is
\* longer than 63 characters ('Label too long') or holds a character outside
\* ASCII (UnicodeEncodeError); otherwise it succeeds, also when the encoded
\* form before the zero byte has 254 bytes.
C24_LimitsOnText ==
    Built =>
       LET exc == Job.result.exc
           text == Job.domain
       IN  IF text = <<>> \/ Len(text) > 253 THEN exc = InvalidDomainName
           ELSE IF Refused(text) = {} THEN exc = ""
           ELSE IF LongerThan(text, FirstRefused(text), 63) THEN exc = LabelTooLong
           ELSE exc = "UnicodeEncodeError: 'ascii' codec can't encode character"

\* A text of 253 characters was encoded into 254 bytes and a zero byte
C24_Witness ==
    /\ Accepted
    /\ Len(Job.domain) = 253
    /\ EncodedLength(Job.domain) = 254
    /\ Len(Job.result.ret) = 12 + 254 + 1 + 4

\* The bytes of a name: for each label that is not empty its length and its
\* characters, then a zero byte
RECURSIVE NameBytes(_)
NameBytes(text) ==
    IF text = <<>> THEN <<0>>
    ELSE IF text[1] = Dot THEN NameBytes(Tail(text))
    ELSE LET n == CHOOSE n \in 1..Len(text) :
                     /\ \A k \in 1..n : text[k] # Dot
                     /\ (n = Len(text) \/ text[n + 1] = Dot)
         IN  <<n>> \o SubSeq(text, 1, n) \o NameBytes(SubSeq(text, n + 1, Len(text)))

\* C25: every packet build_query returns is a header of 12 bytes with
\* id = transaction_id mod 65536, flags 0x0100 and counts 1, 0, 0, 0, then the
\* labels that are not empty, each after its length byte, then a zero byte,
\* then the type code and the class code 1 in 16 bits each.  The packet for
\* another transaction id differs in its first two bytes only.
C25_QueryLayout ==
    Accepted =>
       LET packet == Job.result.ret
           name == NameBytes(Job.domain)
       IN  /\ packet[1] * 256 + packet[2] = Job.transaction_id % 65536
           /\ packet[1] \in 0..255 /\ packet[2] \in 0..255
           /\ SubSeq(packet, 3, 12) = <<1, 0, 0, 1, 0, 0, 0, 0, 0, 0>>
           /\ SubSeq(packet, 13, 12 + Len(name)) = name
           /\ Len(packet) = 12 + Len(name) + 4
           /\ LET code == packet[Len(packet) - 3] * 256 + packet[Len(packet) - 2]
              IN  /\ code \in {1, 2, 5, 12, 15, 16, 28}
                  /\ RECORD_TYPES[Job.record_type] = code
                  /\ Parser_RECORD_TYPES[code] = Job.record_type
           /\ packet[Len(packet) - 1] = 0 /\ packet[Len(packet)] = 1
           /\ \A other \in CodecIds :
                 LET again == build_query(Job.domain, Job.record_type, other)
                 IN  /\ again.exc = ""
                     /\ SubSeq(again.ret, 3, Len(again.ret)) = SubSeq(packet, 3, Len(packet))
                     /\ Len(again.ret) = Len(packet)
                     /\ (other % 65536 # Job.transaction_id % 65536
                            => SubSeq(again.ret, 1, 2) # SubSeq(packet, 1, 2))

\* "a.b" was encoded for type MX with a transaction id above 65535
C25_Witness ==
    /\ Accepted
    /\ Job.domain = <<97, Dot, 98>>
    /\ Job.record_type = Str_MX
    /\ Job.transaction_id = 65536 + 4660
    /\ Job.result.ret = <<18, 52, 1, 0, 0, 1, 0, 0, 0, 0, 0, 0, 1, 97, 1, 98, 0, 0, 15, 0, 1>>

Named == pc[Coder].op = "parse_domain_name"

\* Where the labels that lie one after another from offset on stop: at a
\* pointer, at a zero byte, or at the end of the packet
RECURSIVE Walk(_, _)
Walk(packet, offset) ==
    IF offset >= Len(packet) THEN [kind |-> "end", at |-> offset]
    ELSE IF packet[offset + 1] >= 192 THEN [kind |-> "pointer", at |-> offset]
    ELSE IF packet[offset + 1] = 0 THEN [kind |-> "zero", at |-> offset]
    ELSE IF offset + 1 + packet[offset + 1] > Len(packet)
    THEN [kind |-> "end", at |-> offset]
    ELSE Walk(packet, offset + 1 + packet[offset + 1])

\* The 14 bits after the mark of the pointer at offset
Target(packet, offset) == (packet[offset + 1] - 192) * 256 + packet[offset + 2]

\* C27: decoding a name that begins with a pointer at p ends as decoding the
\* name at the pointer's target ends, and when it returns it returns the same
\* string and the offset p + 2, however many pointers were followed.  In
\* general a decoding that returns gives back the offset of the first pointer
\* met plus 2, and with no pointer the offset after the zero byte.
C27_PointerOffsets ==
    Named =>
       LET packet == Job.packet
           p == Job.offset
           r == Job.result
           w == Walk(packet, p)
       IN  /\ (packet[p + 1] >= 192 /\ p + 2 <= Len(packet)) =>
                 LET t == parse_domain_name(packet, Target(packet, p))
                 IN  /\ r.exc = t.exc
                     /\ r.exc = "" => /\ r.ret.name = t.ret.name
                                       /\ r.ret.offset = p + 2
           /\ r.exc = "" =>
                 /\ w.kind = "pointer" => r.ret.offset = w.at + 2
                 /\ w.kind = "zero" => r.ret.offset = w.at + 1

\* A name was decoded through two pointers: the one at 3 leads to 1, the one at
\* 1 leads to the zero byte at 0
C27_Witness ==
    /\ Named
    /\ Job.packet = <<0, 192, 0, 192, 1>>
    /\ Job.offset = 3
    /\ Job.result = Ok([name |-> <<Dot>>, offset |-> 5])

Headed == pc[Coder].op = "parse_header"

\* C28 as claimed: the fields of the header are the bits of the flags word,
\* and the status is the name of the rcode for 0..5 and UNKNOWN(n), with the
\* number n between parentheses, for 6..15.
C28_FlagsAndStatus ==
    Headed =>
       /\ Job.header.qr = Job.qr
       /\ Job.header.opcode = Job.opcode
       /\ Job.header.aa = Job.aa
       /\ Job.header.tc = Job.tc
       /\ Job.header.rd = Job.rd
       /\ Job.header.ra = Job.ra
       /\ Job.header.rcode = Job.rcode
       /\ Job.result.exc = ""
       /\ Job.result.ret.status =
             CASE Job.rcode = 0 -> "NOERROR"
               [] Job.rcode = 1 -> "FORMERR"
               [] Job.rcode = 2 -> "SERVFAIL"
               [] Job.rcode = 3 -> "NXDOMAIN"
               [] Job.rcode = 4 -> "NOTIMP"
               [] Job.rcode = 5 -> "REFUSED"
               [] OTHER -> "UNKNOWN(" \o ToString(Job.rcode) \o ")"

\* A reply with rcode 6 was decoded: its status has no closing parenthesis
C28_Witness ==
    /\ Headed
    /\ Job.rcode = 6
    /\ Job.result.ret.status = "UNKNOWN(6"

Answered == pc[Coder].op = "parse_response"

IsNameType(code) == code \in {2, 5, 12}

\* The first answer is in the answers and the answer after it is decoded; the
\* data of a record of an unknown type, of an A record not of 4 bytes, of an
\* AAAA record not of 16 bytes, of an MX record of less than 3 bytes and of a
\* record whose name cannot be unpacked is the hex form of its RDATA
FallsBack ==
    LET r == Job.result
        data == r.ret.answers[1].data
    IN  /\ Len(r.ret.answers) = IF Job.more THEN 2 ELSE 1
        /\ Job.more => r.ret.answers[2].data = <<49, 48, 46, 48, 46, 48, 46, 49>>
        /\ Job.code = 99 => data = hex(Job.rdata)
        /\ Job.code = 1 /\ Len(Job.rdata) # 4 => data = hex(Job.rdata)
        /\ Job.code = 28 /\ Len(Job.rdata) # 16 => data = hex(Job.rdata)
        /\ Job.code = 15 /\ Len(Job.rdata) < 3 => data = hex(Job.rdata)
        /\ (IsNameType(Job.code)
              /\ parse_domain_name(Job.packet, find(Job.packet, Job.rdata)).exc
                   = StructError.exc) => data = hex(Job.rdata)

\* C29 as claimed: whatever the RDATA of the first answer, parse_response
\* returns, the record is in the answers with the hex form of its RDATA where
\* it has no typed form, and the answer after it is decoded.
C29_RdataNeverStopsDecoding == Answered => Job.result.exc = "" /\ FallsBack

\* What holds: whenever parse_response returns, it has done so
C29_FallsBackWhenReturning == Answered /\ Job.result.exc = "" => FallsBack

\* A reply whose first answer is an NS record with a pointer to itself as
\* RDATA: parse_response does not return
C29_Witness ==
    /\ Answered
    /\ Job.code = 2
    /\ Job.rdata = <<192, RdataAt>>
    /\ Job.more
    /\ Job.result = Hangs

\* The record types of spec and code
SupportedTypes == {Str_A, Str_NS, Str_CNAME, Str_PTR, Str_MX, Str_TXT, Str_AAAA}

\* The query's record type is not supported or its domain cannot be encoded
Invalid(call) ==
    \/ call.record_type \notin SupportedTypes
    \/ call.domain = <<>>
    \/ Len(call.domain) > 253
    \/ HasLongLabel(call.domain)

\* The call raised ValueError and used no transport: no sendto, no recvfrom, one
\* build_query at most, and no entry that was not there when it began
RefusedBeforeIO(call) ==
    /\ call.exc \in {"ValueError: Unsupported record type", InvalidDomainName, LabelTooLong}
    /\ call.ret = None
    /\ call.sendto = 0
    /\ call.recvfrom = 0
    /\ call.build_query <= 1
    /\ call.sock = "none"
    /\ \A i \in 1..Len(cache) :
          \E j \in 1..Len(call.entries_before) : cache[i] = call.entries_before[j]

\* C26 as claimed: a query with an unsupported record type or an invalid
\* domain fails with a validation error, without sending, receiving or
\* retrying, and creates no cache entry.
C26_InvalidQueryFails == Done /\ Invalid(Call) => RefusedBeforeIO(Call)

\* What holds: such a query fails so when its lookup in the cache misses
C26_InvalidQueryFailsOnMiss ==
    Done /\ Invalid(Call) /\ ~Call.cache_hit => RefusedBeforeIO(Call)

\* A query for the unsupported type "A:A" has returned a cached response
C26_Witness ==
    /\ Done
    /\ Call.record_type \notin SupportedTypes
    /\ Call.exc = ""
    /\ Call.cache_hit
    /\ Call.ret.status = "NOERROR"
    /\ Call.sendto = 0

----------------------------------------------------------------------------
(* Properties of bulk_query *)

Frame == pc[Bulk].arg

\* The last place of a domain in the list
LastOf(domains, domain) ==
    CHOOSE i \in 1..Len(domains) :
       domains[i] = domain /\ \A j \in 1..Len(domains) : domains[j] = domain => j <= i

\* query was called once for each element of the list, in list order, and the
\* result has one entry for each domain of the list: what the (last) query for
\* it returned, or an error entry with the text of what it raised
ResultsComplete ==
    /\ Frame.queried = Frame.domains
    /\ wire.query = Frame.queries_before + Len(Frame.domains)
    /\ KeysOf(Frame.results) = {Frame.domains[i] : i \in 1..Len(Frame.domains)}
    /\ \A i, j \in 1..Len(Frame.results) :
          Frame.results[i].key = Frame.results[j].key => i = j
    /\ \A i \in 1..Len(Frame.results) :
          LET value == Frame.results[i].value
              outcome == Frame.outcomes[LastOf(Frame.domains, Frame.results[i].key)]
          IN  /\ value = outcome
              /\ IF "error" \notin DOMAIN value
                 THEN value.query_name = Frame.results[i].key
                 ELSE value.error \in {"ValueError: Invalid domain name length",
                                     "Exception: DNS query failed",
                                     "Exception: DNS query timeout",
                                     "Exception: DNS packet too short (minimum 12 bytes required)"}

\* C30 as claimed: bulk_query always returns, no query it calls is left
\* running for good, and what it returns has an entry for every domain of the
\* list.
C30_BulkQueryAlwaysReturns ==
    /\ pc[Resolver].phase # "hung"
    /\ InBulk("returned") => ResultsComplete

\* What holds: when bulk_query returns, its result is as claimed, and while it
\* runs the queries made are those of the first elements of the list
C30_BulkQueryResults ==
    /\ InBulk("returned") => ResultsComplete
    /\ InBulk("loop") =>
          /\ Frame.queried = SubSeq(Frame.domains, 1, Frame.i - 1)
          /\ Len(Frame.outcomes) = Frame.i - 1

\* The query for the first of two domains decodes a reply for good: the second
\* domain is never queried and bulk_query does not return
C30_Witness ==
    /\ InBulk("loop")
    /\ pc[Resolver].phase = "hung"
    /\ Frame.i = 1
    /\ Len(Frame.domains) = 2
    /\ Frame.results = <<>>

----------------------------------------------------------------------------
(* Properties of what query returns and of its socket *)

\* C31 as claimed: every result query returns, from the cache or from the
\* network, names the domain, the record type and the server of the call.
C31_ResultNamesTheCall == Done /\ Call.exc = "" => SameQuery(Call.ret, Call)

\* What holds: a result from the network names the call, and a result from the
\* cache names a query with the key text of the call
C31_ResultNamesTheKey ==
    Done /\ Call.exc = "" =>
       IF Call.cache_hit
       THEN KeyText(Call.ret.query_name, Call.ret.query_type, Call.ret.dns_server)
               = KeyText(Call.domain, Call.record_type, Call.dns_server)
       ELSE SameQuery(Call.ret, Call)

\* A result from the cache names another domain and another record type than
\* the call that returned it
C31_Witness ==
    /\ Done
    /\ Call.cache_hit
    /\ Call.ret.query_name # Call.domain
    /\ Call.ret.query_type # Call.record_type
    /\ Call.ret.dns_server = Call.dns_server

\* C32: a query of a client without a cache never returns from a cache and
\* stores no entry (only a sweep pass changes the entries of a cache that
\* another client uses meanwhile); when it succeeds it has encoded once,
\* sent once and received once, so that k such queries make k round trips;
\* what it raises comes from the encoding, the transport or the decoding.
C32_NoCacheAlwaysTransmits ==
    /\ wire.sendto <= wire.query
    /\ pc[Resolver].op = "query" /\ ~Call.has_cache =>
          /\ ~Call.cache_hit
          /\ \A i \in 1..Len(cache) :
                \E j \in 1..Len(Call.entries_before) : cache[i] = Call.entries_before[j]
          /\ stats.cleanups = 0 => cache = Call.entries_before
          /\ Call.sendto <= 1 /\ Call.recvfrom <= Call.sendto
          /\ Call.build_query = 1
    /\ Done /\ ~Call.has_cache =>
          IF Call.exc = ""
          THEN /\ Call.sendto = 1 /\ Call.recvfrom = 1
               /\ SameQuery(Call.ret, Call)
          ELSE Call.exc \in {"ValueError: Unsupported record type",
                             InvalidDomainName, LabelTooLong,
                             "Exception: DNS query failed", "Exception: DNS query timeout",
                             "Exception: DNS packet too short (minimum 12 bytes required)",
                             "Exception: Transaction ID mismatch"}

\* The third of three queries without a cache has returned: three datagrams
\* were sent, nothing is cached and nothing was counted
C32_Witness ==
    /\ Done
    /\ ~Call.has_cache
    /\ Call.exc = ""
    /\ Call.ret.status = "NOERROR"
    /\ wire = [query |-> 3, sendto |-> 3]
    /\ cache = <<>>
    /\ stats = InitialStats

\* The transport of the call has failed: the query was encoded, the cache did
\* not answer, and the call is over without a datagram received
TransportFailed ==
    /\ Done
    /\ ~Call.cache_hit
    /\ Call.query_packet # <<>>
    /\ Call.response_packet = <<>>

C34_SocketClosedOnEveryExit ==
    pc[Resolver].op = "query" =>
        CASE pc[Resolver].phase = "built" -> Call.sock = "none"
          [] pc[Resolver].phase = "sent"  -> Call.sock = "open" /\ Call.recvfrom = 0
          [] pc[Resolver].phase = "hung"  -> Call.sock = "closed"
          [] pc[Resolver].phase = "done"  ->
                /\ Call.sock # "open"
                /\ Call.sock = "closed" <=> Call.sendto = 1
                /\ Call.recvfrom = 1 => Call.sock = "closed"
          [] OTHER -> FALSE

\* A query has raised after a failed sendto, its socket closed
C34_Witness ==
    /\ Done
    /\ Call.exc = "Exception: DNS query failed"
    /\ Call.sendto = 1
    /\ Call.recvfrom = 0
    /\ Call.sock = "closed"

-----------------------------------------------------------------------------
(* The sweeper thread: CacheManager._cleanup_loop, started by __init__ as a *)
(* daemon thread, beside the calls of the foreground.                       *)

\* The thread is in its loop; raised holds the times at which a pass raised
Sweeping(phase, raised) == [op |-> "sweep", phase |-> phase, arg |-> [raised |-> raised]]

SweepKeys == {KeyA, KeyB}

SweepTtls == {1, 2}

\* threading.Thread(target=self._cleanup_loop, daemon=True).start()
InitSweep ==
    /\ cache = <<>>
    /\ stats = InitialStats
    /\ max_size \in 0..MaxCapacity
    /\ now = 0
    /\ lock = Unlocked
    /\ pc = [t \in Threads |-> IF t = Sweeper THEN Sweeping("sleep", <<>>) ELSE Idle]
    /\ disk = None
    /\ wire = NoCalls
    /\ heap = <<>>

\* time.sleep(self._cleanup_interval) returns
SweepWake ==
    /\ At(Sweeper, "sweep", "sleep")
    /\ pc' = [pc EXCEPT ![Sweeper] = Sweeping("pass", pc[Sweeper].arg.raised)]
    /\ UNCHANGED <<cache, stats, max_size, now, lock, disk, wire, heap>>

\* with self._lock: self._cleanup_expired(), and the loop goes round
SweepPass ==
    /\ At(Sweeper, "sweep", "pass")
    /\ cache' = cleanup_expired(cache, stats, now).cache
    /\ stats' = cleanup_expired(cache, stats, now).stats
    /\ pc' = [pc EXCEPT ![Sweeper] = Sweeping("sleep", pc[Sweeper].arg.raised)]
    /\ UNCHANGED <<max_size, now, lock, disk, wire, heap>>

\* Something inside the try raises
SweepRaises ==
    /\ At(Sweeper, "sweep", "pass")
    /\ pc[Sweeper].arg.raised = <<>>
    /\ pc' = [pc EXCEPT ![Sweeper] = Sweeping("caught", <<now>>)]
    /\ UNCHANGED <<cache, stats, max_size, now, lock, disk, wire, heap>>

\* The exception ends the thread
SweepContinue_ending ==
    /\ At(Sweeper, "sweep", "caught")
    /\ pc' = [pc EXCEPT ![Sweeper] = Sweeping("ended", pc[Sweeper].arg.raised)]
    /\ UNCHANGED <<cache, stats, max_size, now, lock, disk, wire, heap>>

\* except Exception: pass, and while True goes round
SweepContinue ==
    /\ At(Sweeper, "sweep", "caught")
    /\ pc' = [pc EXCEPT ![Sweeper] = Sweeping("sleep", pc[Sweeper].arg.raised)]
    /\ UNCHANGED <<cache, stats, max_size, now, lock, disk, wire, heap>>

NextSweep ==
    \/ \E key \in SweepKeys, data \in LockDicts, ttl \in SweepTtls : Set(key, data, ttl)
    \/ \E key \in SweepKeys : Get(key)
    \/ Tick
    \/ SweepWake
    \/ SweepPass
    \/ SweepRaises
    \/ SweepContinue

\* The thread is scheduled again and again, and a pass is not always one that
\* raises; nothing is asked of the foreground or of the clock
SpecSweep ==
    /\ InitSweep
    /\ [][NextSweep]_vars
    /\ WF_vars(SweepWake)
    /\ SF_vars(SweepPass)
    /\ WF_vars(SweepContinue)

-----------------------------------------------------------------------------
(* Properties of the sweeper *)

ExpiredEntry(key) == Has(cache, key) /\ Entry(cache, key).expires <= now

\* C35: with the sweeper scheduled fairly, an entry whose expiry has passed is
\* eventually out of the entries although the foreground may never call
\* again, and after a pass that raised another pass begins.
C35_ExpiredEventuallySwept ==
    /\ \A key \in SweepKeys : ExpiredEntry(key) ~> ~ExpiredEntry(key)
    /\ At(Sweeper, "sweep", "caught") ~> At(Sweeper, "sweep", "pass")

\* A pass raised at time 0; a later pass has removed the only entry, which no
\* get has looked up
C35_Witness ==
    /\ pc[Sweeper] = Sweeping("sleep", <<0>>)
    /\ stats = [InitialStats EXCEPT !.cleanups = 1]
    /\ cache = <<>>
    /\ now = MaxTime

-----------------------------------------------------------------------------
(* Properties of set on a key the cache holds, of the counters and of import *)

\* C36: in every reachable state where the cache holds max_size entries or
\* more, set with positive ttl of a key it holds changes that entry only: the
\* entry keeps its place and gets the new data, created = now and
\* expires = now + ttl; every other entry, the number of entries and all
\* counters stay; and a get that follows returns the new data.
C36_ReplacesInPlace ==
    Len(cache) >= max_size =>
        \A key \in Keys :
            Present(key) =>
                \A data \in Dicts, ttl \in Ttls :
                    ttl > 0 =>
                        LET r == set(cache, stats, now, max_size, key, data, ttl) IN
                        /\ r.exc = ""
                        /\ r.stats = stats
                        /\ Len(r.cache) = Len(cache)
                        /\ \A i \in 1..Len(cache) :
                              IF cache[i].key = key
                              THEN r.cache[i] = [key |-> key, data |-> data,
                                                 created |-> now,
                                                 expires |-> now + ttl * TicksPerSecond]
                              ELSE r.cache[i] = cache[i]
                        /\ get(r.cache, r.stats, now, key).ret = data
                        /\ get(r.cache, r.stats, now, key).cache = r.cache

\* A full cache of two entries whose first was put again later than the
\* second was put, with nothing evicted
C36_Witness ==
    /\ max_size = 2
    /\ Len(cache) = max_size
    /\ cache[1].created > cache[2].created
    /\ cache[1].data # cache[2].data
    /\ stats.evictions = 0

-----------------------------------------------------------------------------
(* Properties of the names in RDATA *)

\* Where the name in the RDATA of the first answer begins
NameAt == IF Job.code = 15 THEN RdataAt + 2 ELSE RdataAt

\* The name decoded from the record's own RDATA
OwnName == parse_domain_name(Job.packet, NameAt)

\* The data the first answer has when its name is decoded where its own RDATA is
OwnData ==
    IF Job.code = 15
    THEN Digits(UnpackH(SubSeq(Job.rdata, 1, 2))) \o <<32>> \o OwnName.ret.name
    ELSE OwnName.ret.name

\* The first answer is an NS, CNAME or PTR record, or an MX record with a
\* preference and more, and a name can be decoded where its RDATA is
NameDecoded ==
    /\ Answered
    /\ Job.result.exc = ""
    /\ IsNameType(Job.code) \/ (Job.code = 15 /\ Len(Job.rdata) >= 3)
    /\ OwnName.exc = ""

\* C37 as claimed: the data of an NS, CNAME or PTR record is the name decoded
\* at the record's own RDATA offset, that of an MX record the preference and
\* the name decoded 2 bytes further, wherever else the bytes of the RDATA occur.
C37_NameFromOwnRdata == NameDecoded => Job.result.ret.answers[1].data = OwnData

\* What holds: it is so when the name ends inside the RDATA
C37_NameInsideRdata ==
    NameDecoded /\ OwnName.ret.offset <= RdataAt + Len(Job.rdata) /\ Len(Job.rdata) > 0
        => Job.result.ret.answers[1].data = OwnData

\* An NS record without RDATA at the end of the reply: its data is not the
\* root name that is decoded where its RDATA would be
C37_Witness ==
    /\ NameDecoded
    /\ Job.code = 2
    /\ Job.rdata = <<>>
    /\ ~Job.more
    /\ OwnData = <<Dot>>
    /\ Job.result.ret.answers[1].data # <<Dot>>

\* The counters s2 differ from s1 at most in the fields named
SameBut(s1, s2, fields) == \A f \in DOMAIN s1 \ fields : s2[f] = s1[f]

\* What each operation called in the current state does to the counters: get
\* adds one to hits or to misses, and nothing else; is_cached, get_ttl,
\* delete, get_stats, get_cache_contents and import_cache change none, an
\* expired entry removed or not; set adds one to evictions when it evicts
\* and changes nothing otherwise; clear_cache sets hits and misses to 0 and
\* keeps evictions and cleanups; a sweep pass adds one to cleanups when it
\* removes an entry and changes nothing otherwise
CountersPerCall ==
    /\ \A key \in Keys :
          LET g == get(cache, stats, now, key).stats IN
          /\ SameBut(stats, g, {"hits", "misses"})
          /\ g.hits + g.misses = stats.hits + stats.misses + 1
          /\ g.hits >= stats.hits /\ g.misses >= stats.misses
          /\ is_cached(cache, stats, now, key).stats = stats
          /\ get_ttl(cache, stats, now, key).stats = stats
          /\ delete(cache, stats, key).stats = stats
          /\ \A data \in LockDicts, ttl \in Ttls :
                LET r == set(cache, stats, now, max_size, key, data, ttl) IN
                IF ttl > 0 /\ Len(cache) >= max_size /\ ~Present(key) /\ Len(cache) > 0
                THEN /\ r.stats = [stats EXCEPT !.evictions = @ + 1]
                     /\ Len(r.cache) = Len(cache)
                ELSE r.stats = stats
    /\ clear_cache(cache, stats).stats = [stats EXCEPT !.hits = 0, !.misses = 0]
    /\ get_stats(cache, stats, max_size).stats = stats
    /\ get_cache_contents(cache, stats, now).stats = stats
    /\ \A file \in ImportFiles : import_cache(cache, stats, now, file).stats = stats
    /\ LET w == cleanup_expired(cache, stats, now) IN
       IF w.cache # cache
       THEN w.stats = [stats EXCEPT !.cleanups = @ + 1]
       ELSE w.stats = stats

\* What a step does to the counters: evictions and cleanups do not go down;
\* evictions goes up by one and only with a key stored that was not held;
\* cleanups goes up by one and only as the sweep pass leaves it; hits + misses
\* goes up by one, as a get leaves it, or to 0 with all entries cleared, or stays
CountersPerStep ==
    /\ stats'.evictions \in {stats.evictions, stats.evictions + 1}
    /\ stats'.cleanups \in {stats.cleanups, stats.cleanups + 1}
    /\ stats'.evictions > stats.evictions =>
          /\ \E key \in Keys : ~Present(key) /\ Has(cache', key)
          /\ stats'.cleanups = stats.cleanups
    /\ stats'.cleanups > stats.cleanups =>
          /\ cache' = cleanup_expired(cache, stats, now).cache
          /\ stats' = cleanup_expired(cache, stats, now).stats
    /\ \/ stats'.hits + stats'.misses = stats.hits + stats.misses
       \/ \E key \in Keys : /\ stats' = get(cache, stats, now, key).stats
                             /\ cache' = get(cache, stats, now, key).cache
       \/ stats'.hits = 0 /\ stats'.misses = 0 /\ cache' = <<>>

\* C38: evictions and cleanups never decrease, clear_cache included;
\* evictions goes up only in a set that evicts and cleanups only in a sweep
\* pass, so that get, is_cached and get_ttl removing an expired entry change
\* neither; and hits + misses is 0 at construction and after clear_cache, and
\* one more after each get, hence the number of gets since then.
C38_CountersMonotone == []CountersPerCall /\ [][CountersPerStep]_vars

\* An eviction and a cleanup have been counted, then the cache was cleared and
\* a get has missed since
C38_Witness ==
    /\ stats = [hits |-> 0, misses |-> 1, evictions |-> 1, cleanups |-> 1]
    /\ cache = <<>>

-----------------------------------------------------------------------------
(* The cache lock with the calls that wait for it: a call reaches            *)
(* `with self._lock:` in one step and enters in another, when the lock is    *)
(* free or its own.  The callers look up, store, export and import; the     *)
(* file to import is whole or lacks the data of an entry.                   *)

\* The call has reached `with self._lock:`
Wait(t, op, arg) ==
    /\ pc[t] = Idle
    /\ pc' = [pc EXCEPT ![t] = [op |-> op, phase |-> "wait", arg |-> arg]]
    /\ UNCHANGED <<cache, stats, max_size, now, lock, disk, wire, heap>>

\* RLock.__enter__ returns
Acquire(t) ==
    /\ pc[t].phase = "wait"
    /\ acquire(t)
    /\ pc' = [pc EXCEPT ![t].phase = "cs"]
    /\ UNCHANGED <<cache, stats, max_size, now, disk, wire, heap>>

\* The steps of thread t inside a with block
Run(t) ==
    \/ GetBody(t)
    \/ SetBody(t)
    \/ ExportStatsEnter(t)
    \/ ExportStatsBody(t)
    \/ \E written \in BOOLEAN : ExportDump(t, written)
    \/ ImportBody(t)

\* The steps in which thread t takes the lock it waits for
Take(t) == Acquire(t) \/ ImportEnter(t)

Waiting(t) == pc[t].phase \in {"wait", "loaded"}

InitWait ==
    /\ cache = <<>>
    /\ stats = InitialStats
    /\ max_size = MaxCapacity
    /\ now = 0
    /\ lock = Unlocked
    /\ pc = [t \in Threads |-> Idle]
    /\ disk \in ImportFiles \ {None}
    /\ wire = NoCalls
    /\ heap = <<>>

NextWait ==
    \/ \E t \in Callers :
          \/ \E key \in LockKeys :
                stats.hits + stats.misses < MaxCount /\ Wait(t, "get", [key |-> key])
          \/ \E key \in LockKeys, data \in LockDicts, ttl \in LockTtls :
                /\ ttl > 0
                /\ Room({"evictions"})
                /\ Wait(t, "set", [key |-> key, data |-> data, ttl |-> ttl])
          \/ Wait(t, "export_cache", None)
          \/ ImportLoad(t)
          \/ Take(t)
          \/ Run(t)
    \/ Wait(Sweeper, "sweep", None)
    \/ Acquire(Sweeper)
    \/ SweepBody

\* A thread inside a with block goes on running, and a thread that waits for
\* a lock that is free again and again gets it
SpecWait ==
    /\ InitWait
    /\ [][NextWait]_vars
    /\ \A t \in Callers : WF_vars(Run(t)) /\ SF_vars(Take(t))
    /\ WF_vars(SweepBody)
    /\ SF_vars(Acquire(Sweeper))

-----------------------------------------------------------------------------
(* Properties of the lock *)

\* C39: a thread owns the lock exactly while it is inside a with block, once,
\* and twice while export_cache is in get_stats; a thread that is in no call
\* or waits does not own it, whether its last call returned or raised.  And
\* with the threads scheduled fairly, every owner gives the lock up and every
\* waiting call and sweep pass gets it.
C39_LockAlwaysReleased ==
    /\ [](\A t \in Threads :
            /\ pc[t].phase \in {"cs", "dump"} => lock = [owner |-> t, count |-> 1]
            /\ pc[t].phase = "stats" => lock = [owner |-> t, count |-> 2]
            /\ pc[t] = Idle \/ Waiting(t) => lock.owner # t)
    /\ [](lock.owner = NoThread <=> lock.count = 0)
    /\ \A t \in Threads : lock.owner = t ~> lock.owner # t
    /\ \A t \in Threads : Waiting(t) ~> lock.owner = t

\* The sweeper and a caller's import of a file that lacks an entry's data wait
\* for the lock while the other caller is in the get_stats of its export
C39_Witness ==
    /\ At("t1", "export_cache", "stats")
    /\ pc["t2"].phase = "loaded"
    /\ \E i \in 1..Len(pc["t2"].arg.file.entries) : ~pc["t2"].arg.file.entries[i].has_data
    /\ pc[Sweeper].phase = "wait"
    /\ lock = [owner |-> "t1", count |-> 2]

-----------------------------------------------------------------------------
(* Properties of an import that fails *)

C40_FailedImportKeepsEarlierEntries ==
    \A file \in ImportFiles :
        LET r == import_cache(cache, stats, now, file) IN
        r.exc # "" =>
            /\ r.stats = stats
            /\ file = None => r.cache = cache
            /\ file # None =>
                  \E n \in 1..Len(file.entries) :
                      /\ ~file.entries[n].has_data
                      /\ \A i \in 1..(n - 1) : file.entries[i].has_data
                      /\ r.cache = import_cache(cache, stats, now,
                                                [entries |-> SubSeq(file.entries, 1, n - 1)]).cache

====
